---- MODULE Spec2Model ----
(***************************************************************************)
(* Student class registration: the user / enrollment data-access core      *)
(* (lib/db.ts, lib/db-errors.ts), the enrollments API route and the        *)
(* in-memory RateLimiter of lib/api-utils.ts, as a state machine.          *)
(*                                                                         *)
(* Strings the code inspects character by character (emails, names,        *)
(* student ids) are sequences of one-character strings; timestamps are the *)
(* value of the clock (Date.now()); `now` is its latest reading, and a     *)
(* step that reads the clock finds it there or later.  The two DynamoDB    *)
(* tables are sets of items, each DynamoDB command is one atomic step, and *)
(* a command may fail with a service error chosen nondeterministically.    *)
(***************************************************************************)
EXTENDS Integers, Sequences, FiniteSets, TLC

\* ------------------------------------------------------------------ bounds
MaxReq == 3         \* calls of the repository functions in one run
MaxUserCalls == 2   \* calls of createUser / getUserByEmail in one run
MaxApiReqs == 2     \* requests to /api/enrollments in one run
MaxTime == 1        \* last instant of the clock
MaxLimiterCalls == 5      \* direct calls of the rate limiters in one run
MaxLimiterTime == 2       \* last instant of the clock in those runs
LimiterMaxAttempts == 2   \* maxAttempts of the limiters called directly
LimiterWindowMs == 1      \* windowMs of the limiters called directly
MaxLogins == 7            \* login attempts (calls of authorize) in one run
MaxChunks == 3            \* pieces a password is built from

Reqs == 1..MaxReq
Times == 0..MaxTime
UserReqs == 1..MaxUserCalls
ApiReqs == 1..MaxApiReqs

VARIABLES
    users,        \* DYNAMODB_USERS_TABLE: set of User items, key email
    enrollments,  \* DYNAMODB_ENROLLMENTS_TABLE: set of Enrollment items, key id
    now,          \* Date.now(), as last read
    apiAttempts,  \* apiRateLimiter.attempts: identifier -> {count, resetTime}
    pc,           \* per call / request: where it stands
    op,           \* per call / request: which function or handler runs
    arg,          \* per call / request: its inputs
    loc,          \* per call / request: its local variables
    res,          \* per call / request: what it returned, threw or answered
    prior,        \* per call / request: the calls that had completed when it began
    faulted,      \* per call / request: one of its DynamoDB commands failed with a service error
    authAttempts, \* lib/auth.ts authAttempts: identifier -> {count, lastAttempt}
    limiterAttempts, \* attempts of a RateLimiter built with (LimiterMaxAttempts, LimiterWindowMs)
    log,          \* the calls of the two rate limiters so far, in order
    authHist,     \* per login email: limiter calls since the last successful login,
                  \* and the credentials the limiter has rejected
    regAttempts   \* authRateLimiter.attempts: identifier -> {count, resetTime}

vars == <<users, enrollments, now, apiAttempts, pc, op, arg, loc, res, prior, faulted,
          authAttempts, limiterAttempts, log, authHist, regAttempts>>
\* the state of the rate limiters of lib/auth.ts and of the login flow
limiterVars == <<authAttempts, limiterAttempts, log, authHist, regAttempts>>

None == [none |-> TRUE]

\* ------------------------------------------------------------------ strings
LowerAlphabet == <<"a","b","c","d","e","f","g","h","i","j","k","l","m",
                   "n","o","p","q","r","s","t","u","v","w","x","y","z">>
UpperAlphabet == <<"A","B","C","D","E","F","G","H","I","J","K","L","M",
                   "N","O","P","Q","R","S","T","U","V","W","X","Y","Z">>
DigitChars == {"0","1","2","3","4","5","6","7","8","9"}
Whitespace == {" ", "\t", "\n"}

LowerLetters == {"a","b","c","d","e","f","g","h","i","j","k","l","m",
                 "n","o","p","q","r","s","t","u","v","w","x","y","z"}
UpperLetters == {"A","B","C","D","E","F","G","H","I","J","K","L","M",
                 "N","O","P","Q","R","S","T","U","V","W","X","Y","Z"}

ToLowerChar(ch) ==
    IF ch \in UpperLetters
        THEN LowerAlphabet[CHOOSE i \in DOMAIN UpperAlphabet : UpperAlphabet[i] = ch]
        ELSE ch

\* String.prototype.toLowerCase
ToLowerCase(s) == [i \in DOMAIN s |-> ToLowerChar(s[i])]

\* String.prototype.trim: drops leading and trailing whitespace
RECURSIVE TrimStart(_)
TrimStart(s) ==
    IF s # <<>> /\ Head(s) \in Whitespace THEN TrimStart(Tail(s)) ELSE s
RECURSIVE TrimEnd(_)
TrimEnd(s) ==
    IF s # <<>> /\ s[Len(s)] \in Whitespace THEN TrimEnd(SubSeq(s, 1, Len(s) - 1)) ELSE s
Trim(s) == TrimEnd(TrimStart(s))

\* variant: the email trimmed but not lowercased
NormalizeEmailBroken(email) == Trim(email)
\* email.toLowerCase().trim()
NormalizeEmail(email) == Trim(ToLowerCase(email))

\* ------------------------------------------------------------------ db-errors.ts
EMAIL_MAX_LENGTH == 254
NAME_MIN_LENGTH == 2
NAME_MAX_LENGTH == 50
STUDENT_ID_MIN_LENGTH == 5
STUDENT_ID_MAX_LENGTH == 20

DatabaseError(message, code, statusCode) ==
    [name |-> "DatabaseError", message |-> message, code |-> code, statusCode |-> statusCode]
ValidationError(message) ==
    [name |-> "ValidationError", message |-> message, code |-> "VALIDATION_ERROR", statusCode |-> 400]
NotFoundError(message) ==
    [name |-> "NotFoundError", message |-> message, code |-> "NOT_FOUND", statusCode |-> 404]
ConflictError(message) ==
    [name |-> "ConflictError", message |-> message, code |-> "CONFLICT", statusCode |-> 409]
\* a plain Error, or an exception of the AWS SDK, by its name
PlainError(name, message) == [name |-> name, message |-> message]

HandleDynamoDBError(error) ==
    CASE error.name = "ConditionalCheckFailedException" ->
            ConflictError("Resource already exists or condition not met")
      [] error.name = "ResourceNotFoundException" ->
            NotFoundError("Requested resource not found")
      [] error.name = "ValidationException" ->
            ValidationError("Invalid input provided")
      [] error.name = "ProvisionedThroughputExceededException" ->
            DatabaseError("Service temporarily unavailable", "RATE_LIMIT", 429)
      [] error.name = "ItemCollectionSizeLimitExceededException" ->
            DatabaseError("Data limit exceeded", "DATA_LIMIT", 413)
      [] error.name = "AccessDeniedException" ->
            DatabaseError("Access denied", "ACCESS_DENIED", 403)
      [] OTHER ->
            DatabaseError("Internal server error", "INTERNAL_ERROR", 500)

\* /^[^\s@]+@[^\s@]+\.[^\s@]+$/
EmailRegexTest(s) ==
    \E i \in DOMAIN s :
        /\ s[i] = "@"
        /\ i > 1
        /\ \A k \in DOMAIN s : k # i => s[k] \notin (Whitespace \cup {"@"})
        /\ \E j \in DOMAIN s : j > i + 1 /\ j < Len(s) /\ s[j] = "."

\* validateEmail: None when it returns, the error it throws otherwise
ValidateEmail(email) ==
    IF Len(email) = 0 THEN ValidationError("Email is required")
    ELSE IF ~EmailRegexTest(email) THEN ValidationError("Invalid email format")
    ELSE IF Len(email) > EMAIL_MAX_LENGTH THEN ValidationError("Email too long")
    ELSE None

\* validateStudentId; /^[a-zA-Z0-9-]+$/
ValidateStudentId(studentId) ==
    IF Len(studentId) = 0 THEN ValidationError("Student ID is required")
    ELSE IF Len(studentId) < STUDENT_ID_MIN_LENGTH \/ Len(studentId) > STUDENT_ID_MAX_LENGTH
        THEN ValidationError("Student ID must be between 5 and 20 characters")
    ELSE IF \E i \in DOMAIN studentId :
                studentId[i] \notin (LowerLetters \cup UpperLetters \cup DigitChars \cup {"-"})
        THEN ValidationError("Student ID can only contain letters, numbers, and hyphens")
    ELSE None

\* validateName; /^[a-zA-Z\s'-]+$/
ValidateName(name) ==
    IF Len(name) = 0 THEN ValidationError("Name is required")
    ELSE IF Len(name) < NAME_MIN_LENGTH \/ Len(name) > NAME_MAX_LENGTH
        THEN ValidationError("Name must be between 2 and 50 characters")
    ELSE IF \E i \in DOMAIN name :
                name[i] \notin (LowerLetters \cup UpperLetters \cup Whitespace \cup {"'", "-"})
        THEN ValidationError("Name can only contain letters, spaces, hyphens, and apostrophes")
    ELSE None

\* ------------------------------------------------------------------ the store
\* Names of the service errors a DynamoDB command can fail with (besides the
\* ConditionalCheckFailedException of a conditional put).
StorageFaults == {"ProvisionedThroughputExceededException"}
StoreOutcomes == {"ok"} \cup StorageFaults

\* ------------------------------------------------------------------ inputs
EmailA       == <<"a","@","x",".","c">>
EmailAUpper  == <<"A","@","x",".","c">>
EmailAPadded == <<" ","a","@","x",".","c">>
EmailB       == <<"b","@","x",".","c">>
EmailNoAt    == <<"a","x",".","c">>

NameOk       == <<"A","l"," ">>
NameDigit    == <<"A","1">>
StudentIdOk  == <<"s","-","1","2","3">>
StudentIdShort == <<"s","1">>

\* the bcrypt hash a caller passes in: salted, so no two calls pass the same one
HashOf(r) == <<"hash", r>>

CreateUserInputs(r) ==
    {[email |-> e, passwordHash |-> HashOf(r), name |-> NameOk, studentId |-> StudentIdOk] :
        e \in {EmailA, EmailAUpper, EmailAPadded}}
    \cup {[email |-> EmailNoAt, passwordHash |-> HashOf(r), name |-> NameOk, studentId |-> StudentIdOk],
          [email |-> EmailA, passwordHash |-> HashOf(r), name |-> NameDigit, studentId |-> StudentIdOk],
          [email |-> EmailA, passwordHash |-> HashOf(r), name |-> NameOk, studentId |-> StudentIdShort],
          [email |-> EmailA, passwordHash |-> <<>>, name |-> NameOk, studentId |-> StudentIdOk]}

LookupEmails == {EmailA, EmailAUpper, EmailAPadded}

\* ------------------------------------------------------------------ calls
Returned(v) == [ok |-> TRUE, value |-> v]
Threw(e) == [ok |-> FALSE, error |-> e]

\* Date.now() / new Date(): the clock never runs backwards
ReadClock(t) == t \in now..MaxTime /\ now' = t

\* calls arrive in the order of their numbers
CanBegin(r) == pc[r] = "idle" /\ \A q \in Reqs : q < r => pc[q] # "idle"
DoneCalls == {q \in Reqs : pc[q] = "done"}

Begin(r, o, a, l, p) ==
    /\ op' = [op EXCEPT ![r] = o]
    /\ arg' = [arg EXCEPT ![r] = a]
    /\ loc' = [loc EXCEPT ![r] = l]
    /\ pc' = [pc EXCEPT ![r] = p]

\* history: the calls that had ended when call r arrived
Arrive(r) == prior' = [prior EXCEPT ![r] = DoneCalls]

\* the outcome of one DynamoDB command of call r
Store(r, outcome) == faulted' = [faulted EXCEPT ![r] = faulted[r] \/ outcome # "ok"]

Finish(r, result) ==
    /\ pc' = [pc EXCEPT ![r] = "done"]
    /\ res' = [res EXCEPT ![r] = result]

\* ------------------------------------------------------------------ api-utils.ts: responses
HTTP_OK == 200
HTTP_CREATED == 201
HTTP_BAD_REQUEST == 400
HTTP_UNAUTHORIZED == 401
HTTP_NOT_FOUND == 404
HTTP_CONFLICT == 409
HTTP_TOO_MANY_REQUESTS == 429
HTTP_INTERNAL_SERVER_ERROR == 500
HTTP_NOT_IMPLEMENTED == 501

CreateApiResponse(data, message, status) ==
    [status |-> status, success |-> (status >= 200 /\ status < 300), data |-> data, message |-> message]
CreateErrorResponse(error, status) ==
    [status |-> status, success |-> FALSE, error |-> error]

\* ------------------------------------------------------------------ db.ts: users
\* createUser up to the PutCommand: the error thrown inside the try block, or None
CreateUserInvalid(a) ==
    IF ValidateEmail(a.email) # None THEN ValidateEmail(a.email)
    ELSE IF ValidateName(a.name) # None THEN ValidateName(a.name)
    ELSE IF ValidateStudentId(a.studentId) # None THEN ValidateStudentId(a.studentId)
    ELSE IF Len(a.passwordHash) = 0 THEN PlainError("Error", "Password hash is required")
    ELSE None

NewUser(a, t) ==
    [email |-> NormalizeEmail(a.email),
     passwordHash |-> a.passwordHash,
     name |-> Trim(a.name),
     studentId |-> Trim(a.studentId),
     createdAt |-> t,
     updatedAt |-> t]

\* variant: a PutCommand without ConditionExpression
UserPutAllowedUnconditional(user) == TRUE
\* variant: the condition names an attribute the stored item does not have
UserPutAllowedOnId(user) == \A u \in users : u.email = user.email => "id" \notin DOMAIN u
\* ConditionExpression: 'attribute_not_exists(email)' on the item with the same key
UserPutAllowed(user) == \A u \in users : u.email # user.email

\* createUser, from the call to the await of docClient.send
CreateUserCall(r) ==
    /\ CanBegin(r)
    /\ Arrive(r)
    /\ \E a \in CreateUserInputs(r) :
        IF CreateUserInvalid(a) # None
            THEN /\ Begin(r, "createUser", a, None, "done")
                 /\ res' = [res EXCEPT ![r] = Threw(HandleDynamoDBError(CreateUserInvalid(a)))]
                 /\ UNCHANGED now
            ELSE \E t \in Times :
                 /\ ReadClock(t)
                 /\ Begin(r, "createUser", a, [user |-> NewUser(a, t)], "createUser_put")
                 /\ UNCHANGED res
    /\ UNCHANGED <<users, enrollments, apiAttempts, faulted, limiterVars>>

\* POST /api/auth/register: its answer once createUser has returned or thrown
RegisterAnswer(result) ==
    IF result.ok
        THEN CreateApiResponse([user |-> [email |-> result.value.email, name |-> result.value.name,
                                          studentId |-> result.value.studentId,
                                          createdAt |-> result.value.createdAt]],
                               "User registered successfully", HTTP_CREATED)
        ELSE CreateErrorResponse("Registration failed. Please try again later.",
                                 HTTP_INTERNAL_SERVER_ERROR)
\* how the caller of createUser ends: the direct caller gets what it returns
\* or throws, the register route answers
CreateUserEnds(r, result) ==
    IF op[r] = "createUser" THEN Finish(r, result) ELSE Finish(r, RegisterAnswer(result))

\* createUser: the conditional PutCommand and the return / catch after it
CreateUserPut(r) ==
    /\ pc[r] = "createUser_put"
    /\ \E outcome \in StoreOutcomes :
        /\ Store(r, outcome)
        /\ IF outcome # "ok"
            THEN /\ CreateUserEnds(r, Threw(HandleDynamoDBError(PlainError(outcome, "service error"))))
                 /\ UNCHANGED users
           ELSE IF ~UserPutAllowed(loc[r].user)
            THEN /\ CreateUserEnds(r, Threw(HandleDynamoDBError(
                        PlainError("ConditionalCheckFailedException", "The conditional request failed"))))
                 /\ UNCHANGED users
           ELSE /\ users' = {u \in users : u.email # loc[r].user.email} \cup {loc[r].user}
                /\ CreateUserEnds(r, Returned(loc[r].user))
    /\ UNCHANGED <<enrollments, now, apiAttempts, op, arg, loc, prior, limiterVars>>

\* GetCommand with Key {email}: result.Item, None when there is no such item
GetUserItem(key) ==
    IF \E u \in users : u.email = key
        THEN CHOOSE u \in users : u.email = key
        ELSE None

\* getUserByEmail with a GetCommand that ends in `outcome`: what it returns
GetUserByEmailResult(email, outcome) ==
    IF ValidateEmail(email) # None \/ outcome # "ok"
        THEN None
        ELSE GetUserItem(NormalizeEmail(email))

\* getUserByEmail: validation, GetCommand, and the catch that returns null
GetUserByEmail(r) ==
    /\ CanBegin(r)
    /\ Arrive(r)
    /\ \E email \in LookupEmails \cup {EmailNoAt}, outcome \in StoreOutcomes :
        /\ Begin(r, "getUserByEmail", [email |-> email], None, "done")
        /\ Store(r, IF ValidateEmail(email) # None THEN "ok" ELSE outcome)
        /\ res' = [res EXCEPT ![r] = Returned(GetUserByEmailResult(email, outcome))]
    /\ UNCHANGED <<users, enrollments, now, apiAttempts, limiterVars>>

\* ------------------------------------------------------------------ db.ts: enrollments
ClassWeb == "Web Development 101"
ClassDb == "Database Basics"
ClassSec == "Cybersecurity Fundamentals"

DecimalDigits == <<"0","1","2","3","4","5","6","7","8","9">>
\* `${Date.now()}`
TimeString(t) == DecimalDigits[t + 1]

\* `${email}-${classId}-${Date.now()}`
EnrollmentId(email, classId, t) == email \o <<"-", classId, "-", TimeString(t)>>

\* the item enrollInClass builds before its PutCommand
NewEnrollment(email, className, classId, t) ==
    [id |-> EnrollmentId(email, classId, t),
     email |-> NormalizeEmail(email),
     className |-> className,
     classId |-> classId,
     enrolledAt |-> t,
     status |-> "active"]

\* variant: a condition on the (email, classId) pair instead of the id
EnrollPutAllowedPerPair(item) ==
    \A e \in enrollments :
        ~(e.email = item.email /\ e.classId = item.classId /\ e.status = "active")
\* ConditionExpression: 'attribute_not_exists(id)' on the item with the same key
EnrollPutAllowed(item) == \A e \in enrollments : e.id # item.id

\* PutCommand: the item replaces the one with the same key
PutEnrollment(item) == {e \in enrollments : e.id # item.id} \cup {item}

\* what enrollInClass throws when its PutCommand ends in `outcome`, None when it returns
EnrollInClassError(item, outcome) ==
    IF outcome # "ok" THEN PlainError("Error", "Failed to enroll in class")
    ELSE IF ~EnrollPutAllowed(item) THEN PlainError("Error", "User is already enrolled in this class")
    ELSE None

\* variant: the scan without its filter on the email
GetUserEnrollmentsUnfiltered(email, outcome) ==
    IF outcome # "ok" THEN {} ELSE {e \in enrollments : e.status = "active"}
\* getUserEnrollments with a ScanCommand that ends in `outcome`: the items it
\* returns (a list in the order of the scan, which DynamoDB does not specify)
GetUserEnrollmentsResult(email, outcome) ==
    IF outcome # "ok" THEN {}
    ELSE LET key == NormalizeEmail(email)
         IN  {e \in enrollments : e.email = key /\ e.status = "active"}

\* variant: the classId compared with the className of the records
IsUserEnrolledInClassByName(email, classId, outcome) ==
    \E e \in GetUserEnrollmentsResult(email, outcome) : e.className = classId
\* isUserEnrolledInClass
IsUserEnrolledInClassResult(email, classId, outcome) ==
    \E e \in GetUserEnrollmentsResult(email, outcome) : e.classId = classId

\* getAllEnrollments
GetAllEnrollmentsResult(outcome) == IF outcome # "ok" THEN {} ELSE enrollments

\* unenrollFromClass: the records find() can return, one per scan order
UnenrollMatches(active, classIdOrName) ==
    {e \in active : e.classId = classIdOrName \/ e.className = classIdOrName}

\* variant: the dropped record written under a key of its own
DroppedItemNewId(enrollment, t) ==
    [id |-> enrollment.id \o <<"-", "dropped">>,
     email |-> enrollment.email,
     className |-> enrollment.className,
     classId |-> enrollment.classId,
     enrolledAt |-> enrollment.enrolledAt,
     status |-> "dropped",
     updatedAt |-> t]
\* unenrollFromClass: { ...enrollment, status: 'dropped', updatedAt }
DroppedItem(enrollment, t) ==
    [id |-> enrollment.id,
     email |-> enrollment.email,
     className |-> enrollment.className,
     classId |-> enrollment.classId,
     enrolledAt |-> enrollment.enrolledAt,
     status |-> "dropped",
     updatedAt |-> t]

\* the error unenrollFromClass throws from its catch block
UnenrollError == PlainError("Error", "Failed to unenroll from class")

\* ------------------------------------------------------------------ api-utils.ts
\* NextResponse.json(body, { status })
JsonResponse(body, status) == [status |-> status, body |-> body]

ValidateContentType(contentType, expectedType) == contentType = expectedType

\* apiRateLimiter = new RateLimiter(100, 60 * 1000)
API_MAX_ATTEMPTS == 100
API_WINDOW_MS == 60000

HasEntry(attempts, identifier) == identifier \in DOMAIN attempts
\* variant: a limiter that admits every call
IsAllowedAlways(map, identifier, t, maxAttempts) == TRUE
\* RateLimiter.isAllowed: what it returns
IsAllowed(attempts, identifier, t, maxAttempts) ==
    IF ~HasEntry(attempts, identifier) \/ t > attempts[identifier].resetTime THEN TRUE
    ELSE attempts[identifier].count < maxAttempts
\* variant: the incremented count is not written back
AfterIsAllowedLostUpdate(attempts, identifier, t, maxAttempts, windowMs) ==
    IF ~HasEntry(attempts, identifier) \/ t > attempts[identifier].resetTime
        THEN (identifier :> [count |-> 1, resetTime |-> t + windowMs]) @@ attempts
    ELSE attempts
\* variant: a rejected call starts the window anew
AfterIsAllowedProlongs(attempts, identifier, t, maxAttempts, windowMs) ==
    IF ~HasEntry(attempts, identifier) \/ t > attempts[identifier].resetTime
        THEN (identifier :> [count |-> 1, resetTime |-> t + windowMs]) @@ attempts
    ELSE IF attempts[identifier].count >= maxAttempts
        THEN [attempts EXCEPT ![identifier].resetTime = t + windowMs]
    ELSE [attempts EXCEPT ![identifier].count = @ + 1]
\* RateLimiter.isAllowed: the map it leaves
AfterIsAllowed(attempts, identifier, t, maxAttempts, windowMs) ==
    IF ~HasEntry(attempts, identifier) \/ t > attempts[identifier].resetTime
        THEN (identifier :> [count |-> 1, resetTime |-> t + windowMs]) @@ attempts
    ELSE IF attempts[identifier].count >= maxAttempts THEN attempts
    ELSE [attempts EXCEPT ![identifier].count = @ + 1]

\* ------------------------------------------------------------------ api/enrollments/route.ts
\* what getServerSession(authOptions) gives for the cookie of a request
SessionOf(email) == [user |-> [email |-> email, name |-> Trim(NameOk), studentId |-> StudentIdOk]]
SessionNoEmail == [user |-> [name |-> Trim(NameOk), studentId |-> StudentIdOk]]
NoSession == None
SessionThrows == [throws |-> TRUE]
Sessions == {SessionOf(EmailA), SessionOf(EmailB), SessionNoEmail, NoSession, SessionThrows}

\* !session?.user?.email
HasIdentity(session) ==
    /\ "user" \in DOMAIN session
    /\ "email" \in DOMAIN session.user
    /\ Len(session.user.email) > 0

ClientIP == "203.0.113.7"
\* `enrollment-${user.email}-${clientIP}`
LimiterKey(email) == <<"enrollment-">> \o email \o <<"-", ClientIP>>

\* const classNames: Record<string, string>
ClassNames == ("1" :> ClassWeb) @@ ("2" :> ClassDb) @@ ("3" :> ClassSec)
\* classNames[classId] is defined
HasClassName(classId) == classId \in DOMAIN ClassNames

\* request bodies: what request.json() gives, or a body it cannot parse
BodyUnparsable == [unparsable |-> TRUE]
EnrollBody(classId, action) == [classId |-> classId, action |-> action]
\* enrollmentSchema.safeParse
EnrollmentSchemaOk(body) ==
    /\ "classId" \in DOMAIN body /\ "action" \in DOMAIN body
    /\ body.classId # "" 
    /\ body.action \in {"enroll", "unenroll"}

JSON == "application/json"
PostInputs ==
    {[contentType |-> JSON, session |-> SessionOf(EmailA), body |-> EnrollBody(c, "enroll")] :
        c \in {"1", "9"}}
    \cup {[contentType |-> JSON, session |-> s, body |-> EnrollBody("1", "enroll")] :
            s \in {SessionOf(EmailB), SessionNoEmail, NoSession, SessionThrows}}
    \cup {[contentType |-> "text/plain", session |-> NoSession, body |-> EnrollBody("1", "enroll")],
          [contentType |-> JSON, session |-> SessionOf(EmailA), body |-> BodyUnparsable],
          [contentType |-> JSON, session |-> SessionOf(EmailA), body |-> EnrollBody("", "enroll")],
          [contentType |-> JSON, session |-> SessionOf(EmailA), body |-> EnrollBody("1", "unenroll")]}

DeleteInputs ==
    {[contentType |-> JSON, session |-> SessionOf(EmailA), body |-> [className |-> x]] :
        x \in {"1", ClassWeb}}
    \cup {[contentType |-> JSON, session |-> s, body |-> [className |-> "1"]] :
            s \in {SessionOf(EmailB), SessionNoEmail, NoSession, SessionThrows}}
    \cup {[contentType |-> "text/plain", session |-> NoSession, body |-> [className |-> "1"]],
          [contentType |-> JSON, session |-> SessionOf(EmailA), body |-> BodyUnparsable],
          [contentType |-> JSON, session |-> SessionOf(EmailA), body |-> [classId |-> "1"]]}

\* variant: a catch block that does not recognise 'Authentication required'
AuthFailureAsServerError(session, message401, message500) ==
    IF session = SessionThrows \/ ~HasIdentity(session)
        THEN CreateErrorResponse(message500, HTTP_INTERNAL_SERVER_ERROR)
    ELSE None
\* requireAuthentication and the catch block of a handler: the answer when the
\* session gives no identity, None when the handler goes on
AuthFailure(session, message401, message500) ==
    IF session = SessionThrows
        THEN CreateErrorResponse(message500, HTTP_INTERNAL_SERVER_ERROR)
    ELSE IF ~HasIdentity(session)
        THEN CreateErrorResponse(message401, HTTP_UNAUTHORIZED)
    ELSE None

\* POST, up to the call of isUserEnrolledInClass: whether it gets as far as the
\* rate limiter, and its answer when it ends there (None when it goes on)
PostReachesLimiter(in) ==
    /\ ValidateContentType(in.contentType, JSON)
    /\ AuthFailure(in.session, "Authentication required", "Enrollment failed. Please try again.") = None
\* variant: the body is validated before the limiter is asked
PostEarlyAnswerValidatesFirst(in, attempts, t) ==
    IF ~ValidateContentType(in.contentType, JSON)
        THEN CreateErrorResponse("Invalid content type", HTTP_BAD_REQUEST)
    ELSE IF AuthFailure(in.session, "Authentication required", "Enrollment failed. Please try again.") # None
        THEN AuthFailure(in.session, "Authentication required", "Enrollment failed. Please try again.")
    ELSE IF in.body = BodyUnparsable
        THEN CreateErrorResponse("Enrollment failed. Please try again.", HTTP_INTERNAL_SERVER_ERROR)
    ELSE IF ~EnrollmentSchemaOk(in.body)
        THEN CreateErrorResponse("Invalid enrollment data", HTTP_BAD_REQUEST)
    ELSE IF ~IsAllowed(attempts, LimiterKey(in.session.user.email), t, API_MAX_ATTEMPTS)
        THEN CreateErrorResponse("Too many enrollment attempts. Please try again later.",
                                 HTTP_TOO_MANY_REQUESTS)
    ELSE IF in.body.action = "unenroll"
        THEN CreateErrorResponse("Unenrollment not yet implemented", HTTP_NOT_IMPLEMENTED)
    ELSE None
PostEarlyAnswer(in, attempts, t) ==
    IF ~ValidateContentType(in.contentType, JSON)
        THEN CreateErrorResponse("Invalid content type", HTTP_BAD_REQUEST)
    ELSE IF AuthFailure(in.session, "Authentication required", "Enrollment failed. Please try again.") # None
        THEN AuthFailure(in.session, "Authentication required", "Enrollment failed. Please try again.")
    ELSE IF ~IsAllowed(attempts, LimiterKey(in.session.user.email), t, API_MAX_ATTEMPTS)
        THEN CreateErrorResponse("Too many enrollment attempts. Please try again later.",
                                 HTTP_TOO_MANY_REQUESTS)
    ELSE IF in.body = BodyUnparsable
        THEN CreateErrorResponse("Enrollment failed. Please try again.", HTTP_INTERNAL_SERVER_ERROR)
    ELSE IF ~EnrollmentSchemaOk(in.body)
        THEN CreateErrorResponse("Invalid enrollment data", HTTP_BAD_REQUEST)
    ELSE IF in.body.action = "unenroll"
        THEN CreateErrorResponse("Unenrollment not yet implemented", HTTP_NOT_IMPLEMENTED)
    ELSE None

\* POST /api/enrollments, from the request to the await of isUserEnrolledInClass
PostCall(r) ==
    /\ CanBegin(r)
    /\ Arrive(r)
    /\ \E in \in PostInputs, t \in Times :
        /\ IF PostReachesLimiter(in)
            THEN /\ ReadClock(t)
                 /\ apiAttempts' = AfterIsAllowed(apiAttempts, LimiterKey(in.session.user.email), t,
                                                  API_MAX_ATTEMPTS, API_WINDOW_MS)
            ELSE /\ t = now
                 /\ UNCHANGED <<now, apiAttempts>>
        /\ IF PostEarlyAnswer(in, apiAttempts, t) # None
            THEN /\ Begin(r, "POST", in, None, "done")
                 /\ res' = [res EXCEPT ![r] = PostEarlyAnswer(in, apiAttempts, t)]
            ELSE /\ Begin(r, "POST", in,
                          [email |-> in.session.user.email, classId |-> in.body.classId],
                          "post_precheck")
                 /\ UNCHANGED res
    /\ UNCHANGED <<users, enrollments, faulted, limiterVars>>

\* variant: the duplicate answered as the pre-check answers it
DuplicateEnrollmentConflict(classId, className) ==
    CreateErrorResponse("You are already enrolled in this class", HTTP_CONFLICT)
\* the answer of POST when enrollInClass throws 'User is already enrolled in this class'
DuplicateEnrollmentAnswer(classId, className) ==
    CreateApiResponse([message |-> "You are already enrolled in this class", alreadyEnrolled |-> TRUE,
                       classId |-> classId, className |-> className],
                      "Already enrolled", HTTP_OK)
\* the answer of POST when its pre-check finds the user enrolled
AlreadyEnrolledAnswer ==
    CreateErrorResponse("You are already enrolled in this class", HTTP_CONFLICT)

\* POST: isUserEnrolledInClass, the catalog lookup, and enrollInClass up to its PutCommand
PostPrecheck(r) ==
    /\ pc[r] = "post_precheck"
    /\ \E outcome \in StoreOutcomes, t \in Times :
        /\ Store(r, outcome)
        /\ IF IsUserEnrolledInClassResult(loc[r].email, loc[r].classId, outcome)
            THEN /\ Finish(r, AlreadyEnrolledAnswer)
                 /\ UNCHANGED <<loc, now>>
                 /\ t = now
           ELSE IF ~HasClassName(loc[r].classId)
            THEN /\ Finish(r, CreateErrorResponse("Class not found", HTTP_NOT_FOUND))
                 /\ UNCHANGED <<loc, now>>
                 /\ t = now
           ELSE /\ ReadClock(t)
                /\ pc' = [pc EXCEPT ![r] = "enroll_put"]
                /\ loc' = [loc EXCEPT ![r] =
                        [email |-> loc[r].email, classId |-> loc[r].classId,
                         className |-> ClassNames[loc[r].classId],
                         enrollment |-> NewEnrollment(loc[r].email, ClassNames[loc[r].classId],
                                                      loc[r].classId, t)]]
                /\ UNCHANGED res
    /\ UNCHANGED <<users, enrollments, apiAttempts, op, arg, prior, limiterVars>>

EnrollInputs ==
    {[email |-> e, className |-> ClassWeb, classId |-> "1"] : e \in {EmailAUpper, EmailAPadded}}

\* enrollInClass, from the call to the await of docClient.send
EnrollInClassCall(r) ==
    /\ CanBegin(r)
    /\ \E a \in EnrollInputs, t \in Times :
        /\ ReadClock(t)
        /\ Begin(r, "enrollInClass", a,
                 [email |-> a.email, classId |-> a.classId, className |-> a.className,
                  enrollment |-> NewEnrollment(a.email, a.className, a.classId, t)],
                 "enroll_put")
    /\ UNCHANGED <<users, enrollments, apiAttempts, res, faulted, prior, limiterVars>>

\* POST: its answer once enrollInClass has returned (error = None) or thrown.
\* After a return it reads getUserEnrollments once more, only to log the
\* result, which cannot change the answer.
PostAnswer(r, error) ==
    IF error = None
        THEN CreateApiResponse([message |-> "Successfully enrolled in class",
                                classId |-> loc[r].classId, className |-> loc[r].className],
                               "Enrollment successful", HTTP_CREATED)
    ELSE IF error.message = "User is already enrolled in this class"
        THEN DuplicateEnrollmentAnswer(loc[r].classId, loc[r].className)
    ELSE CreateErrorResponse("Enrollment failed. Please try again.", HTTP_INTERNAL_SERVER_ERROR)

\* enrollInClass: the conditional PutCommand and what follows it, in the caller too
EnrollPut(r) ==
    /\ pc[r] = "enroll_put"
    /\ \E outcome \in StoreOutcomes :
        LET item == loc[r].enrollment
            error == EnrollInClassError(item, outcome)
        IN  /\ Store(r, outcome)
            /\ enrollments' = IF error = None THEN PutEnrollment(item) ELSE enrollments
            /\ IF op[r] = "enrollInClass"
                THEN Finish(r, IF error = None THEN Returned(None) ELSE Threw(error))
                ELSE Finish(r, PostAnswer(r, error))
    /\ UNCHANGED <<users, now, apiAttempts, op, arg, loc, prior, limiterVars>>

\* getUserEnrollments, called on its own
GetUserEnrollments(r) ==
    /\ CanBegin(r)
    /\ \E email \in {EmailAPadded}, outcome \in StoreOutcomes :
        /\ Begin(r, "getUserEnrollments", [email |-> email], None, "done")
        /\ Store(r, outcome)
        /\ res' = [res EXCEPT ![r] = Returned(GetUserEnrollmentsResult(email, outcome))]
    /\ UNCHANGED <<users, enrollments, now, apiAttempts, prior, limiterVars>>

\* isUserEnrolledInClass, called on its own
IsUserEnrolledInClass(r) ==
    /\ CanBegin(r)
    /\ \E email \in {EmailA}, classId \in {"1"}, outcome \in StoreOutcomes :
        /\ Begin(r, "isUserEnrolledInClass", [email |-> email, classId |-> classId], None, "done")
        /\ Store(r, outcome)
        /\ res' = [res EXCEPT ![r] = Returned(IsUserEnrolledInClassResult(email, classId, outcome))]
    /\ UNCHANGED <<users, enrollments, now, apiAttempts, prior, limiterVars>>

UnenrollInputs ==
    {[email |-> EmailAUpper, classIdOrName |-> "1"], [email |-> EmailA, classIdOrName |-> ClassWeb]}

\* unenrollFromClass, called on its own, up to the await in getUserEnrollments
UnenrollFromClassCall(r) ==
    /\ CanBegin(r)
    /\ \E a \in UnenrollInputs :
        Begin(r, "unenrollFromClass", a, a, "unenroll_scan")
    /\ UNCHANGED <<users, enrollments, now, apiAttempts, res, faulted, prior, limiterVars>>

\* how the caller of unenrollFromClass ends: the direct caller gets what it
\* returns or throws, DELETE answers
UnenrollEnds(r, error) ==
    IF op[r] = "unenrollFromClass"
        THEN Finish(r, IF error = None THEN Returned(None) ELSE Threw(error))
    ELSE IF error = None
        THEN Finish(r, CreateApiResponse([message |-> "Successfully unenrolled from class",
                                          className |-> loc[r].classIdOrName],
                                         "Unenrollment successful", HTTP_OK))
    ELSE Finish(r, CreateErrorResponse("Failed to unenroll from class. Please try again.",
                                       HTTP_INTERNAL_SERVER_ERROR))

\* unenrollFromClass: getUserEnrollments and find()
UnenrollScan(r) ==
    /\ pc[r] = "unenroll_scan"
    /\ \E outcome \in StoreOutcomes :
        LET found == UnenrollMatches(GetUserEnrollmentsResult(loc[r].email, outcome),
                                     loc[r].classIdOrName)
        IN  /\ Store(r, outcome)
            /\ IF found = {}
                \* 'Enrollment not found' is thrown inside the try block and
                \* replaced in the catch block
                THEN UnenrollEnds(r, UnenrollError) /\ UNCHANGED loc
                ELSE \E e \in found :
                        /\ loc' = [loc EXCEPT ![r] =
                                [email |-> loc[r].email, classIdOrName |-> loc[r].classIdOrName,
                                 enrollment |-> e]]
                        /\ pc' = [pc EXCEPT ![r] = "unenroll_put"]
                        /\ UNCHANGED res
    /\ UNCHANGED <<users, enrollments, now, apiAttempts, op, arg, prior, limiterVars>>

\* unenrollFromClass: the PutCommand that rewrites the record
UnenrollPut(r) ==
    /\ pc[r] = "unenroll_put"
    /\ \E outcome \in StoreOutcomes, t \in Times :
        /\ ReadClock(t)
        /\ Store(r, outcome)
        /\ enrollments' = IF outcome = "ok"
                            THEN PutEnrollment(DroppedItem(loc[r].enrollment, t))
                            ELSE enrollments
        /\ UnenrollEnds(r, IF outcome = "ok" THEN None ELSE UnenrollError)
    /\ UNCHANGED <<users, apiAttempts, op, arg, loc, prior, limiterVars>>

\* DELETE, from the request to the await in unenrollFromClass
DeleteEarlyAnswer(in) ==
    IF ~ValidateContentType(in.contentType, JSON)
        THEN CreateErrorResponse("Invalid content type", HTTP_BAD_REQUEST)
    ELSE IF AuthFailure(in.session, "Authentication required",
                        "Failed to unenroll from class. Please try again.") # None
        THEN AuthFailure(in.session, "Authentication required",
                         "Failed to unenroll from class. Please try again.")
    ELSE IF in.body = BodyUnparsable
        THEN CreateErrorResponse("Failed to unenroll from class. Please try again.",
                                 HTTP_INTERNAL_SERVER_ERROR)
    ELSE IF "className" \notin DOMAIN in.body \/ in.body.className = ""
        THEN CreateErrorResponse("Class name is required", HTTP_BAD_REQUEST)
    ELSE None

DeleteCall(r) ==
    /\ CanBegin(r)
    /\ Arrive(r)
    /\ \E in \in DeleteInputs :
        IF DeleteEarlyAnswer(in) # None
            THEN /\ Begin(r, "DELETE", in, None, "done")
                 /\ res' = [res EXCEPT ![r] = DeleteEarlyAnswer(in)]
            ELSE /\ Begin(r, "DELETE", in,
                          [email |-> in.session.user.email, classIdOrName |-> in.body.className],
                          "unenroll_scan")
                 /\ UNCHANGED res
    /\ UNCHANGED <<users, enrollments, now, apiAttempts, faulted, limiterVars>>

\* GET /api/enrollments, up to the await in getAllEnrollments
GetCall(r) ==
    /\ CanBegin(r)
    /\ Arrive(r)
    /\ \E session \in Sessions :
        LET early == AuthFailure(session, "Unauthorized", "Failed to get enrollments")
        IN  IF early # None
                THEN /\ Begin(r, "GET", [session |-> session], None, "done")
                     /\ res' = [res EXCEPT ![r] = JsonResponse([error |-> early.error], early.status)]
                ELSE /\ Begin(r, "GET", [session |-> session],
                              [email |-> session.user.email], "get_user")
                     /\ UNCHANGED res
    /\ UNCHANGED <<users, enrollments, now, apiAttempts, faulted, limiterVars>>

\* GET: getUserEnrollments and the answer (the getAllEnrollments before it is
\* only logged: it returns [] when its scan fails, and nothing reads it)
GetUser(r) ==
    /\ pc[r] = "get_user"
    /\ \E outcome \in StoreOutcomes :
        /\ Store(r, outcome)
        /\ Finish(r, JsonResponse(GetUserEnrollmentsResult(loc[r].email, outcome), HTTP_OK))
    /\ UNCHANGED <<users, enrollments, now, apiAttempts, op, arg, loc, prior, limiterVars>>

\* ------------------------------------------------------------------ lib/auth.ts: checkRateLimit
\* variant: the limit compared with <=
CheckRateLimitOffByOne(map, identifier, t, maxAttempts, windowMs) ==
    IF ~HasEntry(map, identifier) THEN TRUE
    ELSE IF t - map[identifier].lastAttempt > windowMs THEN TRUE
    ELSE map[identifier].count <= maxAttempts
\* checkRateLimit: what it returns
CheckRateLimit(map, identifier, t, maxAttempts, windowMs) ==
    IF ~HasEntry(map, identifier) THEN TRUE
    ELSE IF t - map[identifier].lastAttempt > windowMs THEN TRUE
    ELSE map[identifier].count < maxAttempts
\* variant: the incremented count is not written back
AfterCheckRateLimitLostUpdate(map, identifier, t, maxAttempts, windowMs) ==
    IF ~HasEntry(map, identifier)
        THEN (identifier :> [count |-> 1, lastAttempt |-> t]) @@ map
    ELSE IF t - map[identifier].lastAttempt > windowMs
        THEN (identifier :> [count |-> 1, lastAttempt |-> t]) @@ map
    ELSE map
\* checkRateLimit: the map it leaves
AfterCheckRateLimit(map, identifier, t, maxAttempts, windowMs) ==
    IF ~HasEntry(map, identifier)
        THEN (identifier :> [count |-> 1, lastAttempt |-> t]) @@ map
    ELSE IF t - map[identifier].lastAttempt > windowMs
        THEN (identifier :> [count |-> 1, lastAttempt |-> t]) @@ map
    ELSE IF map[identifier].count >= maxAttempts THEN map
    ELSE [map EXCEPT ![identifier] = [count |-> @.count + 1, lastAttempt |-> t]]

\* Map.prototype.delete
MapDelete(map, identifier) == [k \in DOMAIN map \ {identifier} |-> map[k]]
\* variant: the counter is kept
ClearRateLimitKeeps(map, identifier) == map
\* clearRateLimit: the map it leaves
ClearRateLimit(map, identifier) == MapDelete(map, identifier)
\* variant: the counter is kept
ResetKeeps(map, identifier) == map
\* RateLimiter.reset: the map it leaves
Reset(map, identifier) == MapDelete(map, identifier)

\* ------------------------------------------------------------------ the rate limiters called directly
\* The limiter functions contain no await: a call runs to completion before
\* any other request continues, so each call is one step, and the calls of
\* concurrent requests are steps at the same instant in some order.
LimiterIds == {"id1", "id2"}
LimiterTimes == 0..MaxLimiterTime
\* The two limiters share no state: a run calls one of them, the functions in fns.
CanCallLimiter(fns) ==
    /\ Len(log) < MaxLimiterCalls
    /\ \A i \in DOMAIN log : log[i].fn \in fns
\* the calls on the instances of RateLimiter
InstanceFns == {"isAllowed", "reset", "apiRateLimiter.isAllowed"}
Logged(fn, identifier, t, result) == [fn |-> fn, id |-> identifier, t |-> t, ok |-> result]

\* checkRateLimit(identifier, LimiterMaxAttempts, LimiterWindowMs)
CheckRateLimitCall ==
    /\ CanCallLimiter({"checkRateLimit", "clearRateLimit"})
    /\ \E identifier \in LimiterIds, t \in LimiterTimes :
        /\ t >= now /\ now' = t
        /\ authAttempts' = AfterCheckRateLimit(authAttempts, identifier, t,
                                               LimiterMaxAttempts, LimiterWindowMs)
        /\ log' = Append(log, Logged("checkRateLimit", identifier, t,
                     CheckRateLimit(authAttempts, identifier, t, LimiterMaxAttempts, LimiterWindowMs)))
    /\ UNCHANGED <<users, enrollments, apiAttempts, pc, op, arg, loc, res, prior, faulted,
                   limiterAttempts, authHist, regAttempts>>

\* clearRateLimit(identifier)
ClearRateLimitCall ==
    /\ CanCallLimiter({"checkRateLimit", "clearRateLimit"})
    /\ \E identifier \in LimiterIds :
        /\ authAttempts' = ClearRateLimit(authAttempts, identifier)
        /\ log' = Append(log, Logged("clearRateLimit", identifier, now, TRUE))
    /\ UNCHANGED <<users, enrollments, now, apiAttempts, pc, op, arg, loc, res, prior, faulted,
                   limiterAttempts, authHist, regAttempts>>

\* RateLimiter.isAllowed(identifier) of new RateLimiter(LimiterMaxAttempts, LimiterWindowMs)
IsAllowedCall ==
    /\ CanCallLimiter(InstanceFns)
    /\ \E identifier \in LimiterIds, t \in LimiterTimes :
        /\ t >= now /\ now' = t
        /\ limiterAttempts' = AfterIsAllowed(limiterAttempts, identifier, t,
                                             LimiterMaxAttempts, LimiterWindowMs)
        /\ log' = Append(log, Logged("isAllowed", identifier, t,
                     IsAllowed(limiterAttempts, identifier, t, LimiterMaxAttempts)))
    /\ UNCHANGED <<users, enrollments, apiAttempts, pc, op, arg, loc, res, prior, faulted,
                   authAttempts, authHist, regAttempts>>

\* apiRateLimiter.isAllowed(identifier): the instance built with (100, 60 * 1000).
\* Its window outlasts a run, so the clock is read as it stands.
ApiIsAllowedCall ==
    /\ CanCallLimiter(InstanceFns)
    /\ \E identifier \in LimiterIds, t \in {now} :
        /\ now' = t
        /\ apiAttempts' = AfterIsAllowed(apiAttempts, identifier, t,
                                         API_MAX_ATTEMPTS, API_WINDOW_MS)
        /\ log' = Append(log, Logged("apiRateLimiter.isAllowed", identifier, t,
                     IsAllowed(apiAttempts, identifier, t, API_MAX_ATTEMPTS)))
    /\ UNCHANGED <<users, enrollments, pc, op, arg, loc, res, prior, faulted,
                   authAttempts, limiterAttempts, authHist, regAttempts>>

\* RateLimiter.reset(identifier)
ResetCall ==
    /\ CanCallLimiter(InstanceFns)
    /\ \E identifier \in LimiterIds :
        /\ limiterAttempts' = Reset(limiterAttempts, identifier)
        /\ log' = Append(log, Logged("reset", identifier, now, TRUE))
    /\ UNCHANGED <<users, enrollments, now, apiAttempts, pc, op, arg, loc, res, prior, faulted,
                   authAttempts, authHist, regAttempts>>

\* ------------------------------------------------------------------ lib/session.ts and the next-auth callbacks
IdentityFields == {"email", "name", "studentId"}
\* an object literal { email: o.email, name: o.name, studentId: o.studentId }:
\* a property read from a missing field is undefined, here left out
PickIdentity(o) == [f \in IdentityFields \cap DOMAIN o |-> o[f]]

\* authOptions.callbacks.jwt: the token after the callback (user = None unless signing in)
JwtCallback(token, user) ==
    IF user = None THEN token
    ELSE [f \in DOMAIN token \cup IdentityFields |->
            IF f \in IdentityFields THEN user[f] ELSE token[f]]
\* authOptions.callbacks.session: the session built from a decoded token
SessionCallback(token) == [user |-> PickIdentity(token)]

\* the decoded tokens a request can carry: one issued at sign-in by the jwt
\* callback, and tokens that lack fields the callback would have set
TokenAtSignIn ==
    JwtCallback([sub |-> EmailA],
                [id |-> EmailA, email |-> EmailA, name |-> Trim(NameOk), studentId |-> StudentIdOk])
TokenEmailOnly == [sub |-> EmailA, email |-> EmailA]
TokenBare == [sub |-> EmailA]
\* what getServerSession(authOptions) can give the session gate
GateSessions ==
    {SessionCallback(TokenAtSignIn), SessionCallback(TokenEmailOnly), SessionCallback(TokenBare),
     SessionNoEmail, NoSession, SessionThrows}

\* getAuthSession: what it returns, None for null
GetAuthSession(session) ==
    IF session = SessionThrows THEN None
    ELSE IF "user" \notin DOMAIN session THEN None
    ELSE PickIdentity(session.user)

\* requireAuth: what it returns or throws
RequireAuth(session) ==
    IF GetAuthSession(session) = None
        THEN Threw(PlainError("Error", "Authentication required"))
        ELSE Returned(GetAuthSession(session))

\* requireAuthentication of the enrollments route: what it returns or throws
RequireAuthentication(session) ==
    IF session = SessionThrows
        THEN Threw(PlainError("Error", "getServerSession failed"))
    ELSE IF ~HasIdentity(session)
        THEN Threw(PlainError("Error", "Authentication required"))
    ELSE Returned(session.user)

\* a call of one of the three forms of the session gate
GateCall(r, fn, result) ==
    /\ CanBegin(r)
    /\ Begin(r, fn, [session |-> result[1]], None, "done")
    /\ res' = [res EXCEPT ![r] = result[2]]
    /\ UNCHANGED <<users, enrollments, now, apiAttempts, prior, faulted, limiterVars>>

GetAuthSessionCall(r) ==
    \E session \in GateSessions :
        GateCall(r, "getAuthSession", <<session, Returned(GetAuthSession(session))>>)

RequireAuthCall(r) ==
    \E session \in GateSessions :
        GateCall(r, "requireAuth", <<session, RequireAuth(session)>>)

RequireAuthenticationCall(r) ==
    \E session \in GateSessions :
        GateCall(r, "requireAuthentication", <<session, RequireAuthentication(session)>>)

\* ------------------------------------------------------------------ the login flow: authorize of app/api/auth/[...nextauth]/route.ts
\* checkRateLimit(email, 5, 15 * 60 * 1000)
AUTH_MAX_ATTEMPTS == 5
AUTH_WINDOW_MS == 900000

PasswordRight == "Correct-Horse-1"
PasswordWrong == "Wrong-Horse-2"
\* the credentials of a login attempt
Credentials ==
    {[email |-> EmailA, password |-> PasswordRight],
     [email |-> EmailAUpper, password |-> PasswordRight],
     [email |-> EmailA, password |-> PasswordWrong],
     [email |-> EmailB, password |-> PasswordRight],
     [email |-> EmailNoAt, password |-> PasswordRight]}

\* z.string().email(): like the pattern of validateEmail, zod's pattern wants
\* local@domain.tld without whitespace
ZodEmail(s) == EmailRegexTest(s)
\* loginSchema.safeParse(credentials).success
LoginSchemaOk(c) ==
    /\ Len(c.email) >= 1
    /\ ZodEmail(c.email)
    /\ Len(c.email) <= EMAIL_MAX_LENGTH
    /\ c.password # ""
\* loginSchema.safeParse(credentials).data: the email lowercased and trimmed
LoginData(c) == [email |-> NormalizeEmail(c.email), password |-> c.password]
\* the identifiers checkRateLimit is called with in the login flow
LoginKeys == {LoginData(c).email : c \in {c \in Credentials : LoginSchemaOk(c)}}

\* bcrypt.compare: every stored hash is the bcrypt hash of PasswordRight,
\* under the salt that is its second component
BcryptCompare(password, hashedPassword) == password = PasswordRight
\* variant: a comparison that accepts every password
VerifyPasswordAny(password, hashedPassword, throws) == TRUE
\* verifyPassword: false for an empty password or hash and when bcrypt throws
VerifyPassword(password, hashedPassword, throws) ==
    IF password = "" THEN FALSE
    ELSE IF Len(hashedPassword) = 0 THEN FALSE
    ELSE IF throws THEN FALSE
    ELSE BcryptCompare(password, hashedPassword)

\* the user object authorize returns
AuthorizedUser(user) ==
    [id |-> user.email, email |-> user.email, name |-> user.name, studentId |-> user.studentId]

\* a record createUser has stored: the account the logins are for
RegisteredUser ==
    NewUser([email |-> EmailAUpper, passwordHash |-> HashOf(1), name |-> NameOk,
             studentId |-> StudentIdOk], 0)

\* history of the login flow: a limiter call for key with the given result
AfterLimiterCall(hist, c, key, admitted) ==
    [hist EXCEPT !.logins = @ + 1, !.sinceWin[key] = Append(@, admitted),
                 !.rejected = IF admitted THEN @ ELSE @ \cup {c}]
\* history of the login flow: a successful login for key
AfterSuccess(hist, key) ==
    [hist EXCEPT !.won = @ \cup {key}, !.sinceWin[key] = <<>>]

\* a request slot takes a new login attempt when it is free
CanLogin(r) == pc[r] \in {"idle", "done"} /\ authHist.logins < MaxLogins

\* authorize returns: its arguments and local variables are gone
AuthorizeEnds(r, result) ==
    /\ Finish(r, result)
    /\ arg' = [arg EXCEPT ![r] = None]
    /\ loc' = [loc EXCEPT ![r] = None]

\* authorize, from the call to the await of getUserByEmail: safeParse and
\* checkRateLimit.  The instants of a run all lie within one window of 15
\* minutes, so the clock is read as it stands.  A slot taken again holds no
\* result until the new login returns.
AuthorizeCall(r) ==
    /\ CanLogin(r)
    /\ \E c \in Credentials, t \in {now} :
        /\ op' = [op EXCEPT ![r] = "authorize"]
        /\ IF ~LoginSchemaOk(c)
            THEN /\ t = now
                 /\ AuthorizeEnds(r, Returned(None))
                 /\ authHist' = [authHist EXCEPT !.logins = @ + 1]
                 /\ UNCHANGED <<now, authAttempts>>
            ELSE LET key == LoginData(c).email
                     admitted == CheckRateLimit(authAttempts, key, t,
                                                AUTH_MAX_ATTEMPTS, AUTH_WINDOW_MS)
                 IN  /\ ReadClock(t)
                     /\ authAttempts' = AfterCheckRateLimit(authAttempts, key, t,
                                                            AUTH_MAX_ATTEMPTS, AUTH_WINDOW_MS)
                     /\ authHist' = AfterLimiterCall(authHist, c, key, admitted)
                     /\ IF admitted
                         THEN /\ pc' = [pc EXCEPT ![r] = "authorize_lookup"]
                              /\ arg' = [arg EXCEPT ![r] = c]
                              /\ loc' = [loc EXCEPT ![r] =
                                    [email |-> key, password |-> c.password,
                                     admitted |-> admitted]]
                              /\ res' = [res EXCEPT ![r] = None]
                         ELSE AuthorizeEnds(r, Returned(None))
    /\ UNCHANGED <<users, enrollments, apiAttempts, prior, faulted, limiterAttempts, log, regAttempts>>

\* authorize: getUserByEmail and the test of its result
AuthorizeLookup(r) ==
    /\ pc[r] = "authorize_lookup"
    /\ \E outcome \in StoreOutcomes :
        LET user == GetUserByEmailResult(loc[r].email, outcome)
        IN  /\ IF user = None
                THEN AuthorizeEnds(r, Returned(None))
                ELSE /\ pc' = [pc EXCEPT ![r] = "authorize_verify"]
                     /\ loc' = [loc EXCEPT ![r] =
                            [email |-> loc[r].email, password |-> loc[r].password,
                             admitted |-> loc[r].admitted, user |-> user]]
                     /\ UNCHANGED <<arg, res>>
    /\ UNCHANGED <<users, enrollments, now, apiAttempts, op, prior, faulted, limiterVars>>

\* authorize: verifyPassword, clearRateLimit and the return
AuthorizeVerify(r) ==
    /\ pc[r] = "authorize_verify"
    /\ \E throws \in BOOLEAN :
        IF VerifyPassword(loc[r].password, loc[r].user.passwordHash, throws)
            THEN /\ authAttempts' = ClearRateLimit(authAttempts, loc[r].email)
                 /\ authHist' = AfterSuccess(authHist, loc[r].email)
                 /\ AuthorizeEnds(r, Returned(AuthorizedUser(loc[r].user)))
            ELSE /\ AuthorizeEnds(r, Returned(None))
                 /\ UNCHANGED <<authAttempts, authHist>>
    /\ UNCHANGED <<users, enrollments, now, apiAttempts, op, prior, faulted,
                   limiterAttempts, log, regAttempts>>

\* ------------------------------------------------------------------ lib/auth.ts: validatePasswordStrength
\* passwords are built from these pieces, the test's passwords among them
PasswordChunks ==
    {<<"w","e","a","k">>,
     <<"S","t","r","o","n","g","P","a","s","s","w","o","r","d">>,
     <<"N","o","N","u","m","b","e","r","s">>,
     <<"n","o","n","u","m","b","e","r","s">>,
     <<"N","O","L","O","W","E","R","C","A","S","E">>,
     <<"1","2","3">>,
     <<"!">>,
     <<"X","y","z","w">>,
     <<"7","7","7">>}
RECURSIVE PasswordsOf(_)
PasswordsOf(n) ==
    IF n = 0 THEN {<<>>}
    ELSE PasswordsOf(n - 1) \cup {p \o c : p \in PasswordsOf(n - 1), c \in PasswordChunks}
Passwords == PasswordsOf(MaxChunks)

\* [!@#$%^&*()_+\-=\[\]{};':"\\|,.<>\/?]
SpecialChars == {"!","@","#","$","%","^","&","*","(",")","_","+","-","=","[","]",
                 "{","}",";","'",":","\"","\\","|",",",".","<",">","/","?"}
\* regexp.test(s) for a character class
HasChar(s, class) == \E i \in DOMAIN s : s[i] \in class
\* /(.)\1{2,}/.test(s)
HasRepeat(s) ==
    \E i \in 1..(Len(s) - 2) : s[i] # "\n" /\ s[i + 1] = s[i] /\ s[i + 2] = s[i]
Includes(s, sub) ==
    \E i \in 0..(Len(s) - Len(sub)) : SubSeq(s, i + 1, i + Len(sub)) = sub
CommonPatterns ==
    {<<"1","2","3">>,
     <<"a","b","c">>,
     <<"q","w","e">>,
     <<"p","a","s","s","w","o","r","d">>,
     <<"a","d","m","i","n">>}
\* /123|abc|qwe|password|admin/i.test(s)
HasCommonPattern(s) == \E pat \in CommonPatterns : Includes(ToLowerCase(s), pat)
\* validatePasswordStrength: const isValid
PasswordIsValid(password, score) == score >= 4 /\ Len(password) >= 8
\* validatePasswordStrength: score, before Math.max
PasswordScore(password) ==
      (IF Len(password) >= 8 THEN 1 ELSE 0)
    + (IF Len(password) >= 12 THEN 1 ELSE 0)
    + (IF HasChar(password, LowerLetters) THEN 1 ELSE 0)
    + (IF HasChar(password, UpperLetters) THEN 1 ELSE 0)
    + (IF HasChar(password, DigitChars) THEN 1 ELSE 0)
    + (IF HasChar(password, SpecialChars) THEN 1 ELSE 0)
    - (IF HasRepeat(password) THEN 1 ELSE 0)
    - (IF HasCommonPattern(password) THEN 2 ELSE 0)
\* validatePasswordStrength: feedback
PasswordFeedback(password) ==
    LET found ==
               (IF Len(password) < 8
                    THEN <<"Password must be at least 8 characters long">> ELSE <<>>)
            \o (IF HasChar(password, LowerLetters) THEN <<>> ELSE <<"Include lowercase letters">>)
            \o (IF HasChar(password, UpperLetters) THEN <<>> ELSE <<"Include uppercase letters">>)
            \o (IF HasChar(password, DigitChars) THEN <<>> ELSE <<"Include numbers">>)
            \o (IF HasChar(password, SpecialChars) THEN <<>> ELSE <<"Include special characters">>)
            \o (IF HasRepeat(password) THEN <<"Avoid repeating characters">> ELSE <<>>)
            \o (IF HasCommonPattern(password) THEN <<"Avoid common patterns">> ELSE <<>>)
    IN  IF found = <<>> /\ PasswordIsValid(password, PasswordScore(password))
            THEN <<"Strong password!">> ELSE found
ValidatePasswordStrength(password) ==
    IF password = <<>>
        THEN [isValid |-> FALSE, score |-> 0, feedback |-> <<"Password is required">>]
        ELSE LET score == PasswordScore(password)
             IN  [isValid |-> PasswordIsValid(password, score),
                  score |-> IF score < 0 THEN 0 ELSE score,
                  feedback |-> PasswordFeedback(password)]

\* a call of validatePasswordStrength; the function keeps no state, so a run
\* is one call
ValidatePasswordStrengthCall(r) ==
    /\ \A q \in Reqs : pc[q] = "idle"
    /\ \E password \in Passwords :
        /\ op' = [op EXCEPT ![r] = "validatePasswordStrength"]
        /\ arg' = [arg EXCEPT ![r] = [password |-> password]]
        /\ Finish(r, Returned(ValidatePasswordStrength(password)))
    /\ UNCHANGED <<users, enrollments, now, apiAttempts, loc, prior, faulted, limiterVars>>

\* ------------------------------------------------------------------ api/auth/register/route.ts
PASSWORD_MIN_LENGTH == 8
PASSWORD_MAX_LENGTH == 100
ToUpperChar(ch) ==
    IF ch \in LowerLetters
        THEN UpperAlphabet[CHOOSE i \in DOMAIN LowerAlphabet : LowerAlphabet[i] = ch]
        ELSE ch
\* String.prototype.toUpperCase
ToUpperCase(s) == [i \in DOMAIN s |-> ToUpperChar(s[i])]

RegisterPasswordOk == <<"S","t","r","0","n","g","P","w">>
RegisterPasswordWeak == <<"w","e","a","k">>
NameOther == <<"B","o">>
RegisterBody(name, email, studentId, password) ==
    [name |-> name, email |-> email, studentId |-> studentId, password |-> password]
RegisterInputs ==
    {[contentType |-> JSON, body |-> RegisterBody(n, EmailB, StudentIdOk, RegisterPasswordOk)] :
        n \in {NameOk, NameOther}}
    \cup {[contentType |-> JSON,
           body |-> RegisterBody(NameOther, EmailAUpper, StudentIdOk, RegisterPasswordOk)],
          [contentType |-> JSON,
           body |-> RegisterBody(NameOk, EmailB, StudentIdOk, RegisterPasswordWeak)],
          [contentType |-> "text/plain",
           body |-> RegisterBody(NameOk, EmailB, StudentIdOk, RegisterPasswordOk)]}
\* registerSchema.safeParse: nameSchema, emailSchema, studentIdSchema, passwordSchema
RegisterSchemaOk(body) ==
    /\ Len(body.name) >= NAME_MIN_LENGTH /\ Len(body.name) <= NAME_MAX_LENGTH
    /\ \A i \in DOMAIN body.name :
            body.name[i] \in (LowerLetters \cup UpperLetters \cup Whitespace \cup {"'", "-"})
    /\ Len(body.email) >= 1 /\ ZodEmail(body.email) /\ Len(body.email) <= EMAIL_MAX_LENGTH
    /\ Len(body.studentId) >= STUDENT_ID_MIN_LENGTH
    /\ Len(body.studentId) <= STUDENT_ID_MAX_LENGTH
    /\ \A i \in DOMAIN body.studentId :
            body.studentId[i] \in (LowerLetters \cup UpperLetters \cup DigitChars \cup {"-"})
    /\ Len(body.password) >= PASSWORD_MIN_LENGTH /\ Len(body.password) <= PASSWORD_MAX_LENGTH
    /\ HasChar(body.password, LowerLetters)
    /\ HasChar(body.password, UpperLetters)
    /\ HasChar(body.password, DigitChars)
\* validationResult.data: the fields after the transforms of the schemas
RegisterData(body) ==
    [name |-> Trim(body.name),
     email |-> Trim(ToLowerCase(body.email)),
     studentId |-> Trim(ToUpperCase(body.studentId)),
     password |-> body.password]
\* POST, up to the call of getUserByEmail: its answer when it ends there
\* (None when it goes on)
RegisterEarlyAnswer(in, attempts, t) ==
    IF ~ValidateContentType(in.contentType, JSON)
        THEN CreateErrorResponse("Invalid content type", HTTP_BAD_REQUEST)
    ELSE IF ~IsAllowed(attempts, ClientIP, t, AUTH_MAX_ATTEMPTS)
        THEN CreateErrorResponse("Too many registration attempts. Please try again later.",
                                 HTTP_TOO_MANY_REQUESTS)
    ELSE IF ~RegisterSchemaOk(in.body)
        THEN CreateErrorResponse("Validation failed", HTTP_BAD_REQUEST)
    ELSE None
\* POST /api/auth/register, from the request to the await of getUserByEmail.
\* The window of authRateLimiter outlasts a run, so the clock is read as it stands.
RegisterCall(r) ==
    /\ CanBegin(r)
    /\ \E in \in RegisterInputs, t \in {now} :
        /\ regAttempts' = IF ValidateContentType(in.contentType, JSON)
                            THEN AfterIsAllowed(regAttempts, ClientIP, t,
                                                AUTH_MAX_ATTEMPTS, AUTH_WINDOW_MS)
                            ELSE regAttempts
        /\ IF RegisterEarlyAnswer(in, regAttempts, t) # None
            THEN /\ Begin(r, "register", in, None, "done")
                 /\ res' = [res EXCEPT ![r] = RegisterEarlyAnswer(in, regAttempts, t)]
            ELSE /\ Begin(r, "register", in, RegisterData(in.body), "register_lookup")
                 /\ UNCHANGED res
    /\ UNCHANGED <<users, enrollments, now, apiAttempts, prior, faulted,
                   authAttempts, limiterAttempts, log, authHist>>
\* POST: getUserByEmail and the test of its result, hashPassword, and
\* createUser up to its PutCommand
RegisterLookup(r) ==
    /\ pc[r] = "register_lookup"
    /\ \E outcome \in StoreOutcomes, hashFails \in BOOLEAN, t \in Times :
        LET a == [email |-> loc[r].email, passwordHash |-> HashOf(r),
                  name |-> loc[r].name, studentId |-> loc[r].studentId]
        IN  /\ Store(r, outcome)
            /\ IF GetUserByEmailResult(loc[r].email, outcome) # None
                THEN /\ Finish(r, CreateErrorResponse(
                            "Registration failed. Please check your information and try again.",
                            HTTP_CONFLICT))
                     /\ t = now
                     /\ UNCHANGED <<loc, now>>
               ELSE IF hashFails \/ CreateUserInvalid(a) # None
                THEN /\ Finish(r, RegisterAnswer(Threw(PlainError("Error", "createUser failed"))))
                     /\ t = now
                     /\ UNCHANGED <<loc, now>>
               ELSE /\ ReadClock(t)
                    /\ pc' = [pc EXCEPT ![r] = "createUser_put"]
                    /\ loc' = [loc EXCEPT ![r] = [user |-> NewUser(a, t)]]
                    /\ UNCHANGED res
    /\ UNCHANGED <<users, enrollments, apiAttempts, op, arg, prior, limiterVars>>
\* a login in a slot that serves one request
LoginOnce(r) == CanBegin(r) /\ AuthorizeCall(r)

\* ------------------------------------------------------------------ middleware.ts
StartsWith(s, prefix) == Len(prefix) <= Len(s) /\ SubSeq(s, 1, Len(prefix)) = prefix

protectedRoutes ==
    {<<"/","d","a","s","h","b","o","a","r","d">>,
     <<"/","c","l","a","s","s","e","s">>,
     <<"/","p","r","o","f","i","l","e">>,
     <<"/","a","p","i","/","e","n","r","o","l","l","m","e","n","t","s">>,
     <<"/","a","p","i","/","u","s","e","r","s">>}
publicRoutes ==
    {<<"/">>,
     <<"/","l","o","g","i","n">>,
     <<"/","r","e","g","i","s","t","e","r">>,
     <<"/","a","p","i","/","r","e","g","i","s","t","e","r">>,
     <<"/","a","p","i","/","a","u","t","h">>}
\* variant: a route is protected only when it is one of the listed paths itself
isProtectedRouteExact(pathname) == pathname \in protectedRoutes
\* pathname.startsWith(route), for some route of the list
isProtectedRoute(pathname) == \E route \in protectedRoutes : StartsWith(pathname, route)
isPublicRoute(pathname) == \E route \in publicRoutes : StartsWith(pathname, route)

LoginPath == <<"/","l","o","g","i","n">>
RegisterPath == <<"/","r","e","g","i","s","t","e","r">>
DashboardPath == <<"/","d","a","s","h","b","o","a","r","d">>
\* next-auth's sign-in page when withAuth is given no pages option
SignInPage == <<"/","a","p","i","/","a","u","t","h","/","s","i","g","n","i","n">>

\* config.matcher: '/((?!api/auth|_next/static|_next/image|favicon.ico|public/).*)'
MatcherExcluded ==
    {<<"a","p","i","/","a","u","t","h">>,
     <<"_","n","e","x","t","/","s","t","a","t","i","c">>,
     <<"_","n","e","x","t","/","i","m","a","g","e">>,
     <<"f","a","v","i","c","o","n",".","i","c","o">>,
     <<"p","u","b","l","i","c","/">>}
MatcherMatches(pathname) ==
    /\ StartsWith(pathname, <<"/">>)
    /\ ~ \E e \in MatcherExcluded : StartsWith(Tail(pathname), e)

\* the requests: the listed routes, routes below them, and routes of neither list
PathHeads ==
    protectedRoutes \cup publicRoutes \cup
    {<<"/","a","b","o","u","t">>,
     <<"/","p","u","b","l","i","c">>,
     <<"/","_","n","e","x","t","/","s","t","a","t","i","c">>}
PathTails == {<<>>, <<"/","1">>}
Pathnames ==
    {h \o t : h \in PathHeads, t \in PathTails} \cup
    {<<"/","d","a","s","h","b","o","a","r","d","x">>,
     <<"/","l","o","g","i","n","x">>}
\* request.nextauth.token: null, or the decoded JWT
MiddlewareTokens == {None, TokenEmailOnly}

NextResponseNext(headers) == [kind |-> "next", securityHeaders |-> headers]
NextResponseRedirect(to, callbackUrl) ==
    [kind |-> "redirect", to |-> to, callbackUrl |-> callbackUrl]

\* callbacks.authorized
authorized(token, pathname) ==
    IF isPublicRoute(pathname) THEN TRUE
    ELSE IF isProtectedRoute(pathname) THEN token # None
    ELSE TRUE

\* function middleware(request)
middleware(token, pathname) ==
    IF token # None /\ (pathname = LoginPath \/ pathname = RegisterPath)
    THEN NextResponseRedirect(DashboardPath, None)
    ELSE IF token = None /\ isProtectedRoute(pathname)
    THEN NextResponseRedirect(LoginPath, pathname)
    ELSE NextResponseNext(TRUE)

\* withAuth: the wrapped function runs when authorized answers true; otherwise
\* the request is redirected to the sign-in page
withAuth(token, pathname) ==
    IF authorized(token, pathname) THEN middleware(token, pathname)
    ELSE NextResponseRedirect(SignInPage, pathname)

\* a request arrives: config.matcher decides whether the middleware runs on it
MatcherStep(r) ==
    /\ CanBegin(r)
    /\ \A q \in Reqs : q < r => pc[q] = "done"
    /\ \E pathname \in Pathnames, token \in MiddlewareTokens :
        /\ op' = [op EXCEPT ![r] = "middleware"]
        /\ arg' = [arg EXCEPT ![r] = [pathname |-> pathname, token |-> token]]
        /\ IF MatcherMatches(pathname)
           THEN /\ pc' = [pc EXCEPT ![r] = "withAuth"]
                /\ loc' = [loc EXCEPT ![r] = [matched |-> TRUE]]
                /\ UNCHANGED res
           ELSE /\ loc' = [loc EXCEPT ![r] = [matched |-> FALSE]]
                /\ Finish(r, NextResponseNext(FALSE))
    /\ UNCHANGED <<users, enrollments, now, apiAttempts, prior, faulted, limiterVars>>

\* the exported middleware: withAuth asks authorized, then runs the function
WithAuthStep(r) ==
    /\ pc[r] = "withAuth"
    /\ loc' = [loc EXCEPT ![r] = [matched |-> TRUE,
                                  authorized |-> authorized(arg[r].token, arg[r].pathname)]]
    /\ Finish(r, withAuth(arg[r].token, arg[r].pathname))
    /\ UNCHANGED <<users, enrollments, now, apiAttempts, op, arg, prior, faulted, limiterVars>>

Init ==
    /\ users = {}
    /\ enrollments = {}
    /\ now = 0
    /\ apiAttempts = <<>>
    /\ pc = [r \in Reqs |-> "idle"]
    /\ op = [r \in Reqs |-> "none"]
    /\ arg = [r \in Reqs |-> None]
    /\ loc = [r \in Reqs |-> None]
    /\ res = [r \in Reqs |-> None]
    /\ prior = [r \in Reqs |-> {}]
    /\ faulted = [r \in Reqs |-> FALSE]
    /\ authAttempts = <<>>
    /\ limiterAttempts = <<>>
    /\ log = <<>>
    /\ authHist = [logins |-> 0, won |-> {}, sinceWin |-> [k \in LoginKeys |-> <<>>],
                   rejected |-> {}]
    /\ regAttempts = <<>>

NextUsers ==
    \/ \E r \in UserReqs : CreateUserCall(r)
    \/ \E r \in UserReqs : CreateUserPut(r)
    \/ \E r \in UserReqs : GetUserByEmail(r)

SpecUsers == Init /\ [][NextUsers]_vars

\* the repository functions of db.ts called directly, as the tests do
NextRepo ==
    \/ \E r \in Reqs : EnrollInClassCall(r)
    \/ \E r \in Reqs : EnrollPut(r)
    \/ \E r \in Reqs : GetUserEnrollments(r)
    \/ \E r \in Reqs : IsUserEnrolledInClass(r)
    \/ \E r \in Reqs : UnenrollFromClassCall(r)
    \/ \E r \in Reqs : UnenrollScan(r)
    \/ \E r \in Reqs : UnenrollPut(r)

SpecRepo == Init /\ [][NextRepo]_vars

\* the handlers of /api/enrollments
NextApi ==
    \/ \E r \in ApiReqs : GetCall(r)
    \/ \E r \in ApiReqs : GetUser(r)
    \/ \E r \in ApiReqs : PostCall(r)
    \/ \E r \in ApiReqs : PostPrecheck(r)
    \/ \E r \in ApiReqs : EnrollPut(r)
    \/ \E r \in ApiReqs : DeleteCall(r)
    \/ \E r \in ApiReqs : UnenrollScan(r)
    \/ \E r \in ApiReqs : UnenrollPut(r)

SpecApi == Init /\ [][NextApi]_vars

\* the state after 99 requests of a@x.c at instant 0 whose bodies failed
\* validation: its window stands one request short of the limit
InitBusy ==
    /\ users = {}
    /\ enrollments = {}
    /\ now = 0
    /\ apiAttempts = (LimiterKey(EmailA) :>
                        [count |-> API_MAX_ATTEMPTS - 1, resetTime |-> API_WINDOW_MS])
    /\ pc = [r \in Reqs |-> "idle"]
    /\ op = [r \in Reqs |-> "none"]
    /\ arg = [r \in Reqs |-> None]
    /\ loc = [r \in Reqs |-> None]
    /\ res = [r \in Reqs |-> None]
    /\ prior = [r \in Reqs |-> {}]
    /\ faulted = [r \in Reqs |-> FALSE]
    /\ authAttempts = <<>>
    /\ limiterAttempts = <<>>
    /\ log = <<>>
    /\ authHist = [logins |-> 0, won |-> {}, sinceWin |-> [k \in LoginKeys |-> <<>>],
                   rejected |-> {}]
    /\ regAttempts = <<>>

\* POST /api/enrollments at the limit of the rate limiter
NextBusy ==
    \/ \E r \in ApiReqs : PostCall(r)
    \/ \E r \in ApiReqs : PostPrecheck(r)
    \/ \E r \in ApiReqs : EnrollPut(r)

SpecBusy == InitBusy /\ [][NextBusy]_vars

\* the state after b@x.c has enrolled in class 1 at instant 0
InitShared ==
    /\ users = {}
    /\ enrollments = {NewEnrollment(EmailB, ClassWeb, "1", 0)}
    /\ now = 0
    /\ apiAttempts = (LimiterKey(EmailB) :> [count |-> 1, resetTime |-> API_WINDOW_MS])
    /\ pc = [r \in Reqs |-> "idle"]
    /\ op = [r \in Reqs |-> "none"]
    /\ arg = [r \in Reqs |-> None]
    /\ loc = [r \in Reqs |-> None]
    /\ res = [r \in Reqs |-> None]
    /\ prior = [r \in Reqs |-> {}]
    /\ faulted = [r \in Reqs |-> FALSE]
    /\ authAttempts = <<>>
    /\ limiterAttempts = <<>>
    /\ log = <<>>
    /\ authHist = [logins |-> 0, won |-> {}, sinceWin |-> [k \in LoginKeys |-> <<>>],
                   rejected |-> {}]
    /\ regAttempts = <<>>

\* the handlers of /api/enrollments on a table that holds another user's record
SpecShared == InitShared /\ [][NextApi]_vars

\* the state after one registration: Init with the record of that user stored
InitAuth ==
    /\ users = {RegisteredUser}
    /\ enrollments = {}
    /\ now = 0
    /\ apiAttempts = <<>>
    /\ pc = [r \in Reqs |-> "idle"]
    /\ op = [r \in Reqs |-> "none"]
    /\ arg = [r \in Reqs |-> None]
    /\ loc = [r \in Reqs |-> None]
    /\ res = [r \in Reqs |-> None]
    /\ prior = [r \in Reqs |-> {}]
    /\ faulted = [r \in Reqs |-> FALSE]
    /\ authAttempts = <<>>
    /\ limiterAttempts = <<>>
    /\ log = <<>>
    /\ authHist = [logins |-> 0, won |-> {}, sinceWin |-> [k \in LoginKeys |-> <<>>],
                   rejected |-> {}]
    /\ regAttempts = <<>>

\* login attempts, as many in flight at once as there are request slots
NextAuth ==
    \/ \E r \in UserReqs : AuthorizeCall(r)
    \/ \E r \in UserReqs : AuthorizeLookup(r)
    \/ \E r \in UserReqs : AuthorizeVerify(r)

SpecAuth == InitAuth /\ [][NextAuth]_vars

\* everything that works on the users table or runs beside it: registration
\* (the caller of createUser), login, enroll and unenroll
NextRegister ==
    \/ \E r \in UserReqs : RegisterCall(r)
    \/ \E r \in UserReqs : RegisterLookup(r)
    \/ \E r \in UserReqs : CreateUserPut(r)
    \/ \E r \in UserReqs : LoginOnce(r)
    \/ \E r \in UserReqs : AuthorizeLookup(r)
    \/ \E r \in UserReqs : AuthorizeVerify(r)
    \/ \E r \in UserReqs : EnrollInClassCall(r)
    \/ \E r \in UserReqs : EnrollPut(r)
    \/ \E r \in UserReqs : UnenrollFromClassCall(r)
    \/ \E r \in UserReqs : UnenrollScan(r)
    \/ \E r \in UserReqs : UnenrollPut(r)

SpecRegister == InitAuth /\ [][NextRegister]_vars

\* the requests that pass through middleware.ts, one after another
NextMiddleware ==
    \/ \E r \in ApiReqs : MatcherStep(r)
    \/ \E r \in ApiReqs : WithAuthStep(r)

SpecMiddleware == Init /\ [][NextMiddleware]_vars

\* the session gate in its three forms, and the GET handler behind it
NextSession ==
    \/ \E r \in Reqs : GetAuthSessionCall(r)
    \/ \E r \in Reqs : RequireAuthCall(r)
    \/ \E r \in Reqs : RequireAuthenticationCall(r)
    \/ \E r \in Reqs : GetCall(r)
    \/ \E r \in Reqs : GetUser(r)

SpecSession == Init /\ [][NextSession]_vars

\* checkRateLimit / clearRateLimit and a RateLimiter called directly, as the tests do
NextLimiter ==
    \/ CheckRateLimitCall
    \/ ClearRateLimitCall
    \/ IsAllowedCall
    \/ ResetCall

SpecLimiter == Init /\ [][NextLimiter]_vars

\* the limiters side by side: checkRateLimit, and two instances of RateLimiter
NextInstances ==
    \/ CheckRateLimitCall
    \/ ClearRateLimitCall
    \/ IsAllowedCall
    \/ ResetCall
    \/ ApiIsAllowedCall

SpecInstances == Init /\ [][NextInstances]_vars

\* validatePasswordStrength called directly, as the test does
NextPassword == \E r \in Reqs : ValidatePasswordStrengthCall(r)

SpecPassword == Init /\ [][NextPassword]_vars

\* ------------------------------------------------------------------ claims: users
CreateUserCalls == {r \in Reqs : op[r] = "createUser"}
Concurrent(r, q) == r # q /\ pc[r] # "idle" /\ pc[q] # "idle" /\ r \notin prior[q] /\ q \notin prior[r]

\* the createUser calls whose email normalizes (lowercase, trim) to n and whose
\* other arguments are well-formed
CallsFor(n) ==
    {r \in CreateUserCalls :
        /\ NormalizeEmail(arg[r].email) = n
        /\ ValidateName(arg[r].name) = None
        /\ ValidateStudentId(arg[r].studentId) = None
        /\ Len(arg[r].passwordHash) > 0}
NormalizedLookupEmails == {NormalizeEmail(e) : e \in LookupEmails}

Winners(S) == {r \in S : res[r].ok}
OneWinsOthersConflict(S) ==
    LET W == Winners(S)
    IN  /\ Cardinality(W) = 1
        /\ \A r \in S \ W : res[r].error.name = "ConflictError" /\ res[r].error.code = "CONFLICT"
        /\ \A r \in S, w \in W : GetUserByEmailResult(arg[r].email, "ok") = res[w].value
Settled(S) ==
    /\ Cardinality(S) >= 2
    /\ \A r \in S : pc[r] = "done" /\ ~faulted[r]
    /\ \A r, q \in S : r # q => Concurrent(r, q)

\* C1 as stated: of two or more concurrent createUser calls whose emails normalize
\* (lowercase, trim) to the same value (no service error, the other arguments
\* well-formed), exactly one succeeds, every other one fails with ConflictError,
\* and getUserByEmail returns the record of the successful call.
C1_AsStated ==
    \A n \in NormalizedLookupEmails :
        LET S == CallsFor(n) IN Settled(S) => OneWinsOthersConflict(S)

\* C1 amended: the same, for the calls whose email passes validateEmail (so has
\* no surrounding whitespace) and differs at most in letter case; a call whose
\* email carries whitespace is rejected before the write and stores nothing.
C1_OneCreateWins ==
    \A n \in NormalizedLookupEmails :
        LET S == CallsFor(n)
            V == {r \in S : ValidateEmail(arg[r].email) = None}
        IN  /\ Settled(V) => OneWinsOthersConflict(V)
            /\ \A r \in S \ V : pc[r] = "done" => ~res[r].ok /\ res[r].error.code # "CONFLICT"
            /\ Cardinality({u \in users : u.email = n}) <= 1

\* two concurrent calls, one with the email in upper case, have both completed:
\* one created the user, the other got ConflictError
C1_Witness ==
    \E r, q \in CreateUserCalls :
        /\ Concurrent(r, q)
        /\ pc[r] = "done" /\ pc[q] = "done"
        /\ arg[r].email = EmailA /\ arg[q].email = EmailAUpper
        /\ ~faulted[r] /\ ~faulted[q]
        /\ \/ res[r].ok /\ ~res[q].ok /\ res[q].error.code = "CONFLICT"
           \/ res[q].ok /\ ~res[r].ok /\ res[r].error.code = "CONFLICT"

\* ------------------------------------------------------------------ claims: /api/enrollments
\* a well-formed Enroll request of a@x.c for class "1", and the requests that carry it
EnrollOfA == [contentType |-> JSON, session |-> SessionOf(EmailA), body |-> EnrollBody("1", "enroll")]
EnrollRequestsOfA == {r \in ApiReqs : op[r] = "POST" /\ arg[r] = EnrollOfA}

\* request r has passed its scan and holds the record of its PutCommand
HoldsRecord(r) == "enrollment" \in DOMAIN loc[r]
\* the Enroll request r has passed the pre-check, with an id no other Enroll request built
BuiltFreshId(r) ==
    /\ op[r] = "POST" /\ HoldsRecord(r)
    /\ \A t \in ApiReqs \ {r} :
        op[t] = "POST" /\ HoldsRecord(t) => loc[t].enrollment.id # loc[r].enrollment.id
\* a DELETE has picked record e
PickedByDelete(e) ==
    \E d \in ApiReqs : op[d] = "DELETE" /\ HoldsRecord(d) /\ loc[d].enrollment.id = e.id

\* the normalized form of an email: lowercased, surrounding whitespace trimmed
Canonical(email) == Trim(ToLowerCase(email))

ActiveFor(email, classId) ==
    LET key == Canonical(email)
    IN  {e \in enrollments : e.email = key /\ e.classId = classId /\ e.status = "active"}
\* the active records of a@x.c in class "1"
CanonicalA == Canonical(EmailA)
ActiveOfA == {e \in enrollments : e.email = CanonicalA /\ e.classId = "1" /\ e.status = "active"}

\* C2: two concurrent Enroll requests of one identity for one classId that both
\* passed the pre-check (their record ids differ, no storage command failed)
\* both end with 201 Created, and both their records are in the table, active
\* unless an Unenroll request picked them: two active records for one pair.
C2_BothEnrollsSucceed ==
    \A r, q \in EnrollRequestsOfA :
        ( /\ Concurrent(r, q)
          /\ pc[r] = "done" /\ pc[q] = "done"
          /\ ~faulted[r] /\ ~faulted[q]
          /\ BuiltFreshId(r) /\ BuiltFreshId(q) )
        => /\ res[r].status = HTTP_CREATED /\ res[q].status = HTTP_CREATED
           /\ \A t \in {r, q} :
                \E e \in enrollments :
                    /\ e.id = loc[t].enrollment.id
                    /\ e.email = EmailA /\ e.classId = "1"
                    /\ e.status = "active" \/ PickedByDelete(e)

\* two concurrent Enroll requests were both answered 201 and left two active
\* records for the pair
C2_Witness ==
    \E r, q \in EnrollRequestsOfA :
        /\ Concurrent(r, q)
        /\ pc[r] = "done" /\ pc[q] = "done"
        /\ ~faulted[r] /\ ~faulted[q]
        /\ res[r].status = HTTP_CREATED /\ res[q].status = HTTP_CREATED
        /\ Cardinality(ActiveOfA) = 2

\* no request other than r and q has got as far as a PutCommand
OnlyWriters(r, q) == \A t \in ApiReqs \ {r, q} : ~HoldsRecord(t)

C4_AsStated ==
    [][\A r \in ApiReqs :
        ( /\ pc[r] = "post_precheck" /\ pc'[r] = "done"
          /\ ~faulted'[r]
          /\ IsUserEnrolledInClassResult(loc[r].email, loc[r].classId, "ok") )
        => /\ res'[r].status >= 200 /\ res'[r].status < 300
           /\ res'[r].success
           /\ enrollments' = enrollments]_vars

\* the step in which request r arrives, with a session that gives no identity
ArrivesWithoutIdentity(r) ==
    /\ pc[r] = "idle" /\ pc'[r] # "idle"
    /\ op'[r] \in {"GET", "POST", "DELETE"}
    /\ ~HasIdentity(arg'[r].session)
\* the request is answered in that step without a storage command, and nothing stored changes
AnsweredWithoutEffect(r) ==
    /\ pc'[r] = "done"
    /\ users' = users /\ enrollments' = enrollments /\ apiAttempts' = apiAttempts
    /\ faulted' = faulted

EndsFrom(r, o, at) == op[r] = o /\ pc[r] = at /\ pc'[r] = "done" /\ ~faulted'[r]

\* the classIds x stands for: x itself, or the class whose name is x
ClassIdsOf(x) == {c \in DOMAIN ClassNames : x = c \/ x = ClassNames[c]}

\* C6: right after unenrollFromClass(e, x) has completed successfully, x being
\* the classId c or the className of class c, isUserEnrolledInClass(e, c)
\* returns false.
C6_AsStated ==
    [][\A r \in Reqs :
        EndsFrom(r, "unenrollFromClass", "unenroll_put") /\ res'[r].ok
        => \A c \in ClassIdsOf(arg[r].classIdOrName) :
                ~IsUserEnrolledInClassResult(arg[r].email, c, "ok")']_vars

C8_AsStated ==
    [][\A r \in ApiReqs :
        EndsFrom(r, "DELETE", "unenroll_scan")
        => res'[r].status = HTTP_NOT_FOUND /\ enrollments' = enrollments]_vars

\* C9: enrollInClass(e, className, c) throws 'User is already enrolled in this
\* class' and writes nothing whenever the table holds an active record for
\* (normalized e, c).
C9_AsStated ==
    [][\A r \in Reqs :
        ( /\ EndsFrom(r, "enrollInClass", "enroll_put")
          /\ ActiveFor(arg[r].email, arg[r].classId) # {} )
        => /\ ~res'[r].ok
           /\ res'[r].error.message = "User is already enrolled in this class"
           /\ enrollments' = enrollments]_vars

\* the emails that differ from `email` in letter case or surrounding whitespace only
CanonicalLookupEmails == [e \in LookupEmails |-> Canonical(e)]
SameEmailAs(email) ==
    LET key == Canonical(email) IN {e \in LookupEmails : CanonicalLookupEmails[e] = key}

LimiterFns == {"checkRateLimit", "isAllowed"}
\* the function that removes the counter fn keeps
ClearOf(fn) == IF fn = "checkRateLimit" THEN "clearRateLimit" ELSE "reset"
\* the map fn works on
MapOf(fn) == IF fn = "checkRateLimit" THEN authAttempts ELSE limiterAttempts

\* positions in the log of the calls of fn for an identifier
CallsOf(fn, identifier) == {i \in DOMAIN log : log[i].fn = fn /\ log[i].id = identifier}
ClearsOf(fn, identifier) == CallsOf(ClearOf(fn), identifier)
NoClearBetween(fn, identifier, i, j) == \A k \in ClearsOf(fn, identifier) : k < i \/ k > j
\* call i is the first thing that ever happened to the identifier in fn's map
Fresh(fn, identifier, i) ==
    /\ i \in CallsOf(fn, identifier)
    /\ \A k \in CallsOf(fn, identifier) \cup ClearsOf(fn, identifier) : k >= i
\* call j is the latest thing that happened to the identifier in fn's map
Latest(fn, identifier, j) ==
    \A k \in CallsOf(fn, identifier) \cup ClearsOf(fn, identifier) : k <= j
\* the calls made within the window that call i opened
InWindowOf(fn, identifier, i) ==
    {j \in CallsOf(fn, identifier) :
        /\ j >= i
        /\ log[j].t <= log[i].t + LimiterWindowMs
        /\ NoClearBetween(fn, identifier, i, j)}
\* the counter of the identifier is the one a call at time t leaves when it opens a window
FreshEntry(fn, identifier, t) ==
    /\ HasEntry(MapOf(fn), identifier)
    /\ MapOf(fn)[identifier].count = 1
    /\ IF fn = "checkRateLimit"
        THEN authAttempts[identifier].lastAttempt = t
        ELSE limiterAttempts[identifier].resetTime = t + LimiterWindowMs


\* C11: for a fresh identifier, of the calls made within the window its first
\* call opens (and before any clear), the first maxAttempts return true and
\* every further one returns false; for checkRateLimit and for isAllowed.
C11_FirstCallsAdmitted ==
    \A fn \in LimiterFns, identifier \in LimiterIds :
        \A i \in DOMAIN log :
            Fresh(fn, identifier, i) =>
                \A j \in InWindowOf(fn, identifier, i) :
                    log[j].ok <=>
                        Cardinality({k \in InWindowOf(fn, identifier, i) : k <= j})
                            <= LimiterMaxAttempts
\* a limiter has rejected a call made within the first window of id1
C11_Witness ==
    \E fn \in LimiterFns :
        \E i \in DOMAIN log :
            /\ Fresh(fn, "id1", i)
            /\ Cardinality(InWindowOf(fn, "id1", i)) > LimiterMaxAttempts
            /\ \E j \in InWindowOf(fn, "id1", i) : ~log[j].ok

\* the first call made after the window of call i has expired, 0 if there is none
FirstAfterWindow(fn, identifier, i) ==
    LET after == {j \in CallsOf(fn, identifier) :
                    /\ j > i
                    /\ log[j].t > log[i].t + LimiterWindowMs
                    /\ NoClearBetween(fn, identifier, i, j)}
    IN  IF after = {} THEN 0 ELSE CHOOSE j \in after : \A k \in after : j <= k

\* C12: the window the first call for an identifier opens expires at that
\* call's time + windowMs whatever calls are made inside it: the first call
\* after that instant is admitted and opens a new window with count 1; for
\* checkRateLimit and for isAllowed.
C12_AsStated ==
    \A fn \in LimiterFns, identifier \in LimiterIds :
        \A i \in DOMAIN log :
            (Fresh(fn, identifier, i) /\ FirstAfterWindow(fn, identifier, i) # 0) =>
                LET j == FirstAfterWindow(fn, identifier, i)
                IN  /\ log[j].ok
                    /\ Latest(fn, identifier, j) => FreshEntry(fn, identifier, log[j].t)

\* the admitted calls of fn for the identifier made in the interval [s, s + windowMs]
AdmittedIn(fn, identifier, s) ==
    {i \in CallsOf(fn, identifier) :
        log[i].ok /\ log[i].t >= s /\ log[i].t <= s + LimiterWindowMs}


\* C13: as long as the counter of an identifier is never cleared, every
\* interval of length windowMs holds at most 2 x maxAttempts admitted calls
\* for it; for checkRateLimit and for isAllowed.
C13_AtMostTwiceMax ==
    \A fn \in LimiterFns, identifier \in LimiterIds :
        ClearsOf(fn, identifier) = {} =>
            \A s \in LimiterTimes :
                Cardinality(AdmittedIn(fn, identifier, s)) <= 2 * LimiterMaxAttempts
\* a burst across the boundary of two windows: more than maxAttempts admitted
\* calls in one interval of length windowMs
C13_Witness ==
    \E fn \in LimiterFns, s \in LimiterTimes :
        /\ ClearsOf(fn, "id1") = {}
        /\ Cardinality(AdmittedIn(fn, "id1", s)) > LimiterMaxAttempts

\* the latest thing that happened to the identifier before call j was a clear
AfterClear(fn, identifier, j) ==
    \E k \in ClearsOf(fn, identifier) :
        /\ k < j
        /\ \A m \in CallsOf(fn, identifier) \cup ClearsOf(fn, identifier) : m <= k \/ m >= j

\* C14: after clearRateLimit(id) / RateLimiter.reset(id) the map holds no
\* counter for id, and the next limiter call for id is admitted and leaves a
\* fresh window with count 1, whatever the counter held before the clear.
C14_ClearGivesFreshWindow ==
    \A fn \in LimiterFns, identifier \in LimiterIds :
        /\ (\E k \in ClearsOf(fn, identifier) : Latest(fn, identifier, k))
                => ~HasEntry(MapOf(fn), identifier)
        /\ \A j \in CallsOf(fn, identifier) :
                AfterClear(fn, identifier, j) =>
                    /\ log[j].ok
                    /\ Latest(fn, identifier, j) => FreshEntry(fn, identifier, log[j].t)
\* id1 was blocked (its last call was rejected), then cleared, then called again
C14_Witness ==
    \E fn \in LimiterFns :
        \E j \in CallsOf(fn, "id1") :
            /\ AfterClear(fn, "id1", j)
            /\ \E i \in CallsOf(fn, "id1") :
                /\ i < j /\ ~log[i].ok
                /\ \A m \in CallsOf(fn, "id1") : m <= i \/ m >= j

\* the admitted calls of fn for the identifier since its counter was last cleared
AdmittedSinceClear(fn, identifier) ==
    {i \in CallsOf(fn, identifier) :
        log[i].ok /\ \A c \in ClearsOf(fn, identifier) : c < i}
MaxOf(S) == CHOOSE i \in S : \A k \in S : k <= i
\* checkRateLimit: call i set the count to 1 (no admitted call since the
\* clear before it, or the last one more than windowMs earlier)
OpensWindow(identifier, i) ==
    LET earlier == {k \in AdmittedSinceClear("checkRateLimit", identifier) : k < i}
    IN  earlier = {} \/ log[i].t - log[MaxOf(earlier)].t > LimiterWindowMs
\* checkRateLimit: the admitted calls for the identifier in the current window
CurrentAuthCalls(identifier) ==
    LET admitted == AdmittedSinceClear("checkRateLimit", identifier)
        opener == MaxOf({i \in admitted : OpensWindow(identifier, i)})
    IN  {i \in admitted : i >= opener}
\* isAllowed: the admitted calls for the identifier in the current window
CurrentLimiterCalls(identifier) ==
    {i \in AdmittedSinceClear("isAllowed", identifier) :
        log[i].t >= limiterAttempts[identifier].resetTime - LimiterWindowMs}

\* C15: whatever the interleaving of the callers, no increment is lost: the
\* count of an identifier is the number of calls admitted for it in its
\* current window, and it never exceeds maxAttempts; for checkRateLimit and
\* for isAllowed.
C15_NoLostIncrement ==
    \A identifier \in LimiterIds :
        /\ HasEntry(authAttempts, identifier) =>
            /\ authAttempts[identifier].count = Cardinality(CurrentAuthCalls(identifier))
            /\ authAttempts[identifier].count <= LimiterMaxAttempts
        /\ HasEntry(limiterAttempts, identifier) =>
            /\ limiterAttempts[identifier].count = Cardinality(CurrentLimiterCalls(identifier))
            /\ limiterAttempts[identifier].count <= LimiterMaxAttempts
\* more than maxAttempts requests called a limiter for id1 at the same
\* instant, and one of them was rejected
C15_Witness ==
    \E fn \in LimiterFns, t \in LimiterTimes :
        LET same == {i \in CallsOf(fn, "id1") : log[i].t = t}
        IN  /\ Cardinality(same) > LimiterMaxAttempts
            /\ \E i \in same : ~log[i].ok
            /\ ClearsOf(fn, "id1") = {}

\* ------------------------------------------------------------------ claims: session gate
GateFns == {"getAuthSession", "requireAuth", "requireAuthentication"}
GateCallsDone(fn) == {r \in Reqs : pc[r] = "done" /\ op[r] = fn}
\* a session that gives no complete identity: none at all, a failed lookup, missing fields
FailedSession(session) ==
    \/ session = SessionThrows
    \/ "user" \notin DOMAIN session
    \/ ~(IdentityFields \subseteq DOMAIN session.user)

\* C16: whatever the session gate (getAuthSession, requireAuth,
\* requireAuthentication) returns as an identity has email, name and
\* studentId; otherwise it fails (returns null or throws).
C16_AsStated ==
    \A fn \in GateFns :
        \A r \in GateCallsDone(fn) :
            (res[r].ok /\ res[r].value # None) => IdentityFields \subseteq DOMAIN res[r].value

\* C17: every failure of identity resolution looks like 'not authenticated':
\* getAuthSession returns null and never throws, requireAuth throws
\* 'Authentication required' exactly when getAuthSession returns null, and
\* GET /api/enrollments answers 401 Unauthorized as it does without a session.
C17_AsStated ==
    /\ \A r \in GateCallsDone("getAuthSession") :
            /\ res[r].ok
            /\ FailedSession(arg[r].session) => res[r].value = None
    /\ \A r \in GateCallsDone("requireAuth") :
            (~res[r].ok /\ res[r].error.message = "Authentication required")
                <=> GetAuthSession(arg[r].session) = None
    /\ \A r \in GateCallsDone("GET") :
            FailedSession(arg[r].session) =>
                /\ res[r].status = HTTP_UNAUTHORIZED
                /\ res[r].body.error = "Unauthorized"

\* ------------------------------------------------------------------ claims: createUser validation
\* the email, name or studentId of the call breaks a constraint of the User fields
MalformedFields(a) ==
    \/ ValidateEmail(a.email) # None
    \/ ValidateName(a.name) # None
    \/ ValidateStudentId(a.studentId) # None

\* C18: a createUser call with a malformed email, name or studentId fails
\* with a ValidationError (code VALIDATION_ERROR, status 400) and writes
\* nothing to the users table.
C18_AsStated ==
    \A r \in UserReqs :
        (pc[r] = "done" /\ op[r] = "createUser" /\ MalformedFields(arg[r])) =>
            /\ ~res[r].ok
            /\ res[r].error.name = "ValidationError"
            /\ res[r].error.code = "VALIDATION_ERROR"
            /\ res[r].error.statusCode = 400
            /\ \A u \in users : u.passwordHash # arg[r].passwordHash

\* ------------------------------------------------------------------ claims: login
\* the login in slot r ends in this step
AuthorizeReturns(r) ==
    /\ op'[r] = "authorize" /\ pc'[r] = "done"
    /\ pc[r] # "done" \/ res[r] # res'[r]
\* all that authorize tests has passed for the login in slot r: its input
\* parses, the limiter admitted it, the users table holds a record for its
\* email, and its password is the one behind the hash of that record
AllChecksPassed(r) ==
    /\ pc[r] = "authorize_verify"
    /\ LoginSchemaOk(arg[r])
    /\ loc[r].email = LoginData(arg[r]).email
    /\ loc[r].admitted
    /\ GetUserItem(loc[r].email) # None
    /\ loc[r].user = GetUserItem(loc[r].email)
    /\ BcryptCompare(arg[r].password, GetUserItem(loc[r].email).passwordHash)

\* C19: authorize never throws; it returns a user {email, name, studentId}
\* only when the input passes loginSchema, checkRateLimit admitted the
\* attempt, a record exists for the email and the password verifies against
\* its hash; in every other case it returns null.
C19_AuthorizeFailsClosed ==
    [][\A r \in UserReqs :
        /\ (op'[r] = "authorize" /\ pc'[r] = "done") => res'[r].ok
        /\ (AuthorizeReturns(r) /\ res'[r].value # None) =>
            /\ AllChecksPassed(r)
            /\ res'[r].value = AuthorizedUser(GetUserItem(loc[r].email))
            /\ IdentityFields \subseteq DOMAIN res'[r].value]_vars
\* one login has returned the user, another has returned null, and the
\* limiter has rejected an attempt
C19_Witness ==
    /\ \E r \in UserReqs :
        op[r] = "authorize" /\ pc[r] = "done" /\ res[r].value # None
    /\ \E q \in UserReqs :
        op[q] = "authorize" /\ pc[q] = "done" /\ res[q].value = None
    /\ \E key \in LoginKeys :
        \E i \in DOMAIN authHist.sinceWin[key] : ~authHist.sinceWin[key][i]

\* C20: a successful login for an email removes the counter of that email,
\* and of the login attempts for it that follow the first 5 are all admitted
\* by the limiter.
C20_SuccessClearsLimit ==
    \A key \in authHist.won :
        /\ authHist.sinceWin[key] = <<>> => ~HasEntry(authAttempts, key)
        /\ \A i \in DOMAIN authHist.sinceWin[key] :
                i <= AUTH_MAX_ATTEMPTS => authHist.sinceWin[key][i]
\* after a successful login for a@x.c, 5 further attempts for it were admitted
C20_Witness ==
    /\ EmailA \in authHist.won
    /\ Len(authHist.sinceWin[EmailA]) >= AUTH_MAX_ATTEMPTS
    /\ \A i \in 1..AUTH_MAX_ATTEMPTS : authHist.sinceWin[EmailA][i]

\* ------------------------------------------------------------------ claims: password strength
PasswordCalls == {r \in Reqs : op[r] = "validatePasswordStrength" /\ pc[r] = "done"}
\* the passwords the claim speaks of
WeakByClaim(password) ==
    \/ Len(password) < 8
    \/ ~HasChar(password, DigitChars)
    \/ ~HasChar(password, LowerLetters)

\* C21: validatePasswordStrength(p).isValid is false for every password p
\* shorter than 8 characters, for every p without a digit and for every p
\* without a lowercase letter.
C21_AsStated ==
    \A r \in PasswordCalls :
        WeakByClaim(arg[r].password) => ~res[r].value.isValid

\* ------------------------------------------------------------------ claims: enroll, races and failures
\* the PutCommand of the POST in slot r is answered in this step, and the
\* table holds a record with the id of its item
PutLosesRace(r) ==
    /\ op[r] = "POST" /\ pc[r] = "enroll_put" /\ pc'[r] = "done"
    /\ ~EnrollPutAllowed(loc[r].enrollment)
EnrollFailedAnswer ==
    CreateErrorResponse("Enrollment failed. Please try again.", HTTP_INTERNAL_SERVER_ERROR)

\* C22: when the conditional write of a POST that passed the pre-check finds
\* a record with its id, so that enrollInClass throws 'User is already
\* enrolled in this class', the request is answered 200 with success = true
\* and alreadyEnrolled = true, and the table is left as it was.  (A write
\* that fails with a service error is another case: it is answered 500.)
C22_RaceAbsorbed ==
    [][\A r \in ApiReqs :
        PutLosesRace(r) =>
            /\ enrollments' = enrollments
            /\ \/ /\ res'[r].status = HTTP_OK
                  /\ res'[r].success
                  /\ res'[r].data.alreadyEnrolled
               \/ faulted'[r] /\ res'[r] = EnrollFailedAnswer
            /\ ~faulted'[r] => res'[r].status = HTTP_OK]_vars
\* a POST whose storage commands all worked was answered 200 alreadyEnrolled,
\* and the table holds the one record of the request that won
C22_Witness ==
    \E r \in ApiReqs :
        /\ op[r] = "POST" /\ pc[r] = "done" /\ ~faulted[r]
        /\ res[r] = DuplicateEnrollmentAnswer("1", ClassWeb)
        /\ Cardinality(enrollments) = 1

\* the active records of the pair (email, classId)
ActiveOf(email, classId) ==
    {e \in enrollments : e.email = NormalizeEmail(email) /\ e.classId = classId
                            /\ e.status = "active"}
\* a GET one of whose scans failed does not answer with a list
FailedListNotReported ==
    \A r \in ApiReqs :
        (op[r] = "GET" /\ pc[r] = "done" /\ faulted[r]) => res[r].status # HTTP_OK
\* a POST whose pre-check scan failed does not go on to write: one that has
\* written (it stands past its PutCommand with 201) had no failed command
FailedCheckNotPassed ==
    \A r \in ApiReqs :
        (op[r] = "POST" /\ pc[r] = "done" /\ res[r].status = HTTP_CREATED) => ~faulted[r]
\* no POST with a failed command leaves its pair with two active records
FailedCheckNoSecondRecord ==
    \A r \in ApiReqs :
        (op[r] = "POST" /\ pc[r] = "done" /\ faulted[r]) =>
            Cardinality(ActiveOf(arg[r].session.user.email, arg[r].body.classId)) <= 1

\* C23: a failed scan in getUserEnrollments / isUserEnrolledInClass is
\* propagated as an error, never reported as an empty list or as 'not
\* enrolled', so no failed read lets a POST write a second active record for
\* a pair that has one.
C23_AsStated ==
    /\ FailedListNotReported
    /\ FailedCheckNotPassed
    /\ FailedCheckNoSecondRecord

\* ------------------------------------------------------------------ claims: order of the checks of POST
\* the POST in slot r arrives in this step
PostArrives(r) == pc[r] = "idle" /\ op'[r] = "POST"
\* it ends in the step of its arrival, with no command sent to a table
EndsWithoutRepository(r) ==
    /\ pc'[r] = "done"
    /\ ~faulted'[r]
    /\ users' = users /\ enrollments' = enrollments
LimiterAdmits(in, t) ==
    IsAllowed(apiAttempts, LimiterKey(in.session.user.email), t, API_MAX_ATTEMPTS)
BodyFailsValidation(in) == in.body # BodyUnparsable /\ ~EnrollmentSchemaOk(in.body)

\* C24: a POST asks the session gate, then the rate limiter, then validates
\* its body, then calls the repository: without an identity the limiter is
\* not asked; a request the limiter rejects (the 101st of one window for its
\* identity and client IP) is answered 429, whatever its body, with no
\* repository operation; a request whose body fails validation is answered
\* 400 with no repository operation, its limiter slot consumed; and the
\* repository is reached only behind all three.
C24_GateLimiterValidationRepository ==
    [][\A r \in ApiReqs :
        PostArrives(r) =>
            LET in == arg'[r]
                passedGate == PostReachesLimiter(in)
            IN  /\ ~passedGate => apiAttempts' = apiAttempts /\ EndsWithoutRepository(r)
                /\ (passedGate /\ ~LimiterAdmits(in, now')) =>
                        /\ res'[r].status = HTTP_TOO_MANY_REQUESTS
                        /\ EndsWithoutRepository(r)
                /\ (passedGate /\ LimiterAdmits(in, now') /\ BodyFailsValidation(in)) =>
                        /\ res'[r].status = HTTP_BAD_REQUEST
                        /\ EndsWithoutRepository(r)
                        /\ apiAttempts' # apiAttempts
                /\ pc'[r] = "post_precheck" =>
                        /\ passedGate
                        /\ LimiterAdmits(in, now')
                        /\ in.body # BodyUnparsable /\ EnrollmentSchemaOk(in.body)]_vars
\* a request with a body that fails validation was answered 429, another
\* was answered 400 and took the last slot of the window
C24_Witness ==
    \E r, q \in ApiReqs :
        /\ op[r] = "POST" /\ pc[r] = "done" /\ BodyFailsValidation(arg[r])
        /\ res[r].status = HTTP_TOO_MANY_REQUESTS
        /\ op[q] = "POST" /\ pc[q] = "done" /\ BodyFailsValidation(arg[q])
        /\ res[q].status = HTTP_BAD_REQUEST
        /\ apiAttempts[LimiterKey(EmailA)].count = API_MAX_ATTEMPTS
        /\ enrollments = {}

\* ------------------------------------------------------------------ claims: login under the limit
\* the attempts for key the limiter has admitted since the last successful login
AdmittedSinceWin(key) ==
    Cardinality({i \in DOMAIN authHist.sinceWin[key] : authHist.sinceWin[key][i]})
\* the limiter is asked about a login attempt for key in this step
LimiterAsked(key) ==
    Len(authHist'.sinceWin[key]) = Len(authHist.sinceWin[key]) + 1

\* C25: once 5 login attempts for an email have been admitted with no
\* successful login since, a further attempt for it is rejected by the
\* limiter, and in the step that rejects it no login reaches getUserByEmail
\* or verifyPassword and none returns a user: it returns null at once,
\* whatever its password.
C25_BlockedAfterFive ==
    [][\A key \in LoginKeys :
        (LimiterAsked(key) /\ AdmittedSinceWin(key) >= AUTH_MAX_ATTEMPTS) =>
            /\ ~authHist'.sinceWin[key][Len(authHist'.sinceWin[key])]
            /\ authAttempts' = authAttempts
            /\ \A r \in UserReqs :
                /\ pc'[r] \in {"authorize_lookup", "authorize_verify"} => pc'[r] = pc[r]
                /\ res'[r] # res[r] => res'[r] = Returned(None)]_vars
\* the sixth attempt for a@x.c, made with the right password, was rejected
C25_Witness ==
    /\ Len(authHist.sinceWin[EmailA]) > AUTH_MAX_ATTEMPTS
    /\ ~authHist.sinceWin[EmailA][AUTH_MAX_ATTEMPTS + 1]
    /\ [email |-> EmailA, password |-> PasswordRight] \in authHist.rejected
    /\ EmailA \notin authHist.won

\* ------------------------------------------------------------------ claims: limiter frame
\* the counter a map holds for an identifier
EntryOf(map, identifier) == IF HasEntry(map, identifier) THEN map[identifier] ELSE None
\* the identifier has the same counter in all three maps before and after the step
CounterKept(identifier) ==
    /\ EntryOf(authAttempts', identifier) = EntryOf(authAttempts, identifier)
    /\ EntryOf(limiterAttempts', identifier) = EntryOf(limiterAttempts, identifier)
    /\ EntryOf(apiAttempts', identifier) = EntryOf(apiAttempts, identifier)
\* a call for the identifier at any instant is answered after the step as before it
OutcomeKept(identifier) ==
    \A t \in LimiterTimes :
        /\ CheckRateLimit(authAttempts', identifier, t, LimiterMaxAttempts, LimiterWindowMs)
            = CheckRateLimit(authAttempts, identifier, t, LimiterMaxAttempts, LimiterWindowMs)
        /\ IsAllowed(limiterAttempts', identifier, t, LimiterMaxAttempts)
            = IsAllowed(limiterAttempts, identifier, t, LimiterMaxAttempts)
        /\ IsAllowed(apiAttempts', identifier, t, API_MAX_ATTEMPTS)
            = IsAllowed(apiAttempts, identifier, t, API_MAX_ATTEMPTS)

\* C26: a limiter call that is rejected leaves every counter as it was; a
\* limiter call or clear for one identifier leaves the counter of every other
\* identifier, and the answer a call for it would get, as they were; and a
\* call on one limiter leaves the maps of the other limiters as they were.
C26_LimiterFrame ==
    [][Len(log') = Len(log) + 1 =>
        LET call == log'[Len(log')]
        IN  /\ ~call.ok => \A identifier \in LimiterIds : CounterKept(identifier)
            /\ \A identifier \in LimiterIds \ {call.id} :
                    CounterKept(identifier) /\ OutcomeKept(identifier)
            /\ call.fn \notin {"checkRateLimit", "clearRateLimit"} => authAttempts' = authAttempts
            /\ call.fn \notin {"isAllowed", "reset"} => limiterAttempts' = limiterAttempts
            /\ call.fn # "apiRateLimiter.isAllowed" => apiAttempts' = apiAttempts]_vars
\* a call for id1 was rejected by one instance of RateLimiter while that
\* instance holds a counter for id2 and the other instance one for id1
C26_Witness ==
    /\ \E i \in DOMAIN log : log[i].fn = "isAllowed" /\ log[i].id = "id1" /\ ~log[i].ok
    /\ HasEntry(limiterAttempts, "id2")
    /\ HasEntry(apiAttempts, "id1")

\* ------------------------------------------------------------------ claims: isolation of users
\* the records the step writes, rewrites or removes
RecordsTouched == (enrollments' \ enrollments) \cup (enrollments \ enrollments')

C28_UserRecordsKept ==
    /\ [](\A u, v \in users : NormalizeEmail(u.email) = NormalizeEmail(v.email) => u = v)
    /\ [][\A u \in users : u \in users']_vars
\* one registration for b@x.c was answered 201 and another, whose existence
\* check passed or failed, lost the conditional write; both records of the
\* table are the first ones stored
C28_Witness ==
    /\ \E r, q \in UserReqs :
        /\ op[r] = "register" /\ pc[r] = "done" /\ res[r].status = HTTP_CREATED
        /\ op[q] = "register" /\ pc[q] = "done"
        /\ res[q].status = HTTP_INTERNAL_SERVER_ERROR
        /\ arg[q].body.email = EmailB
        /\ arg[q].body.name # arg[r].body.name
        /\ \E u \in users : u.email = EmailB /\ u.name = Trim(arg[r].body.name)
    /\ RegisteredUser \in users
    /\ Cardinality(users) = 2

\* ------------------------------------------------------------------ claims: middleware
MiddlewareRequests == {r \in ApiReqs : op[r] = "middleware" /\ pc[r] = "done"}
\* the prefixes the statement lists
ProtectedPrefixes ==
    {<<"/","d","a","s","h","b","o","a","r","d">>,
     <<"/","c","l","a","s","s","e","s">>,
     <<"/","p","r","o","f","i","l","e">>,
     <<"/","a","p","i","/","e","n","r","o","l","l","m","e","n","t","s">>,
     <<"/","a","p","i","/","u","s","e","r","s">>}
UnderProtectedPrefix(pathname) == \E p \in ProtectedPrefixes : StartsWith(pathname, p)

\* C29: a request with no session token whose path starts with /dashboard,
\* /classes, /profile, /api/enrollments or /api/users is answered by a redirect
\* to /login carrying callbackUrl=<path>, so the route's handler is not
\* reached; a request with a token to /login or to /register is answered by
\* a redirect to /dashboard.
C29_MiddlewareRedirects ==
    \A r \in MiddlewareRequests :
        /\ (arg[r].token = None /\ UnderProtectedPrefix(arg[r].pathname))
            => res[r] = [kind |-> "redirect", to |-> LoginPath,
                         callbackUrl |-> arg[r].pathname]
        /\ (arg[r].token # None /\ arg[r].pathname \in {LoginPath, RegisterPath})
            => res[r] = [kind |-> "redirect", to |-> DashboardPath, callbackUrl |-> None]
C29_Witness ==
    \E r, q \in MiddlewareRequests :
        /\ arg[r].token = None
        /\ arg[r].pathname = <<"/","a","p","i","/","e","n","r","o","l","l","m","e","n","t","s","/","1">>
        /\ res[r].kind = "redirect" /\ res[r].to = LoginPath
        /\ res[r].callbackUrl = arg[r].pathname
        /\ arg[q].token # None
        /\ arg[q].pathname = RegisterPath
        /\ res[q].kind = "redirect" /\ res[q].to = DashboardPath

\* C30: the authorized callback answers false for every request to a protected
\* route that carries no token, and true for every request to a public route.
C30_AsStated ==
    \A r \in MiddlewareRequests :
        loc[r].matched =>
            /\ (arg[r].token = None /\ isProtectedRoute(arg[r].pathname))
                => loc[r].authorized = FALSE
            /\ isPublicRoute(arg[r].pathname) => loc[r].authorized = TRUE

====
